---- MODULE Spec2Model ----
(***************************************************************************)
(* A model of pybrors: the PubMed flat-file parser (pubmed/files.py), the  *)
(* merge of parsed bibliographies (pubmed/data.py), the DICOM              *)
(* anonymization transform with the DicomFile and the DicomDir that apply  *)
(* it to the files of a directory (dicom/files.py), and the constructors   *)
(* of PubmedData and DicomData (pubmed/data.py, dicom/data.py).            *)
(*                                                                         *)
(* Text is modelled as a sequence of one-character strings, so that        *)
(* slicing, stripping, lower-casing and searching are computed as the      *)
(* Python code computes them.                                              *)
(***************************************************************************)
EXTENDS Integers, Sequences, FiniteSets, TLC

(***************************************************************************)
(* Bounds of the model.                                                    *)
(***************************************************************************)
\* The longest PubMed file, in lines, that the parser is run on.
MaxLines == 4

(***************************************************************************)
(* Python string primitives.                                               *)
(***************************************************************************)
Min(a, b) == IF a < b THEN a ELSE b

Max(a, b) == IF a > b THEN a ELSE b

\* s[:k], k of either sign.
SliceTo(s, k) ==
    IF k >= 0 THEN SubSeq(s, 1, Min(k, Len(s)))
              ELSE SubSeq(s, 1, Max(Len(s) + k, 0))

\* s[k:], k of either sign.
SliceFrom(s, k) ==
    IF k >= 0 THEN SubSeq(s, Min(k, Len(s)) + 1, Len(s))
              ELSE SubSeq(s, Max(Len(s) + k, 0) + 1, Len(s))

\* The characters str.strip() removes.
Whitespace == {" ", "\n", "\t"}

RECURSIVE LStrip(_)
LStrip(s) ==
    IF s = <<>> THEN s
    ELSE IF Head(s) \in Whitespace THEN LStrip(Tail(s)) ELSE s

RECURSIVE RStrip(_)
RStrip(s) ==
    IF s = <<>> THEN s
    ELSE IF s[Len(s)] \in Whitespace THEN RStrip(SubSeq(s, 1, Len(s) - 1)) ELSE s

\* str.strip()
Strip(s) == RStrip(LStrip(s))

UpperCase == <<"A", "B", "C", "D", "E", "F", "G", "H", "I", "J", "K", "L", "M",
               "N", "O", "P", "Q", "R", "S", "T", "U", "V", "W", "X", "Y", "Z">>

LowerCase == <<"a", "b", "c", "d", "e", "f", "g", "h", "i", "j", "k", "l", "m",
               "n", "o", "p", "q", "r", "s", "t", "u", "v", "w", "x", "y", "z">>

LowerChar(c) ==
    IF \E i \in 1..Len(UpperCase) : UpperCase[i] = c
    THEN LowerCase[CHOOSE i \in 1..Len(UpperCase) : UpperCase[i] = c]
    ELSE c

\* str.lower()
Lower(s) == [i \in 1..Len(s) |-> LowerChar(s[i])]

\* str.upper()
UpperChar(c) ==
    IF \E i \in 1..Len(LowerCase) : LowerCase[i] = c
    THEN UpperCase[CHOOSE i \in 1..Len(LowerCase) : LowerCase[i] = c]
    ELSE c

Upper(s) == [i \in 1..Len(s) |-> UpperChar(s[i])]

\* str.replace(old, new) for one-character old and new.
Replace(s, old, new) == [i \in 1..Len(s) |-> IF s[i] = old THEN new ELSE s[i]]

\* str.find(c): the 0-based index of the first c, or -1.
Find(s, c) ==
    IF \E i \in 1..Len(s) : s[i] = c
    THEN (CHOOSE i \in 1..Len(s) : s[i] = c /\ \A j \in 1..(i - 1) : s[j] # c) - 1
    ELSE -1

(***************************************************************************)
(* Python dicts and pandas rows: functions from column names to values.    *)
(***************************************************************************)
\* d[k] = v
DictSet(d, k, v) == [x \in (DOMAIN d) \cup {k} |-> IF x = k THEN v ELSE d[x]]

\* {}
EmptyDict == [x \in {} |-> <<>>]

\* The missing value pandas puts where a concatenated row has no column.
NaN == <<"NaN">>

\* pandas.DataFrame(data=d, index=[0]) in a table of the given columns
\* (concat with join="outer"): the columns d lacks are NaN.
RowOf(d, columns) ==
    [c \in columns \cup DOMAIN d |-> IF c \in DOMAIN d THEN d[c] ELSE NaN]

(***************************************************************************)
(* PubmedFile: the tags (pubmed/files.py).                                 *)
(***************************************************************************)
T_PMID == <<"P", "M", "I", "D">>
T_TI   == <<"T", "I">>
T_TA   == <<"T", "A">>
T_JT   == <<"J", "T">>
T_VI   == <<"V", "I">>
T_IP   == <<"I", "P">>
T_DP   == <<"D", "P">>
T_SO   == <<"S", "O">>
T_AB   == <<"A", "B">>
T_SAU  == <<"S", "A", "U">>
T_FAU  == <<"F", "A", "U">>
T_AD   == <<"A", "D">>
T_MH   == <<"M", "H">>

TAGS_ARTICLE == {T_PMID, T_TI, T_TA, T_JT, T_VI, T_IP, T_DP, T_SO, T_AB}

TAGS_AUTHOR == {T_PMID, T_SAU, T_FAU, T_AD}

TAGS_KEYWORD == {T_PMID, T_MH}

\* PubmedFile._clean_text
CleanTextUnderscore(text) == Strip(Replace(Strip(Lower(text)), " ", "_"))

CleanTextKeepSpace(text) == Strip(Strip(Lower(text)))

clean_text(text, keep_space) ==
    IF keep_space THEN CleanTextKeepSpace(text) ELSE CleanTextUnderscore(text)

\* tag = line[:4].strip()
TagOf(raw) == Strip(SliceTo(raw, 4))

\* line = line[5:].strip()
ValueOf(raw) == Strip(SliceFrom(raw, 5))

(***************************************************************************)
(* PubmedFile.__init__: the line-by-line parser.  The parser's locals and  *)
(* the three tables are held in one record while a file is read:           *)
(*   articles, authors, keywords : the tables (sequences of rows)          *)
(*   author, pmid                : the accumulators (dicts)                *)
(*   collect_ab, collect_ad      : the continuation flags                  *)
(*   raised                      : "" or the exception that ended the parse *)
(***************************************************************************)
\* The state after lines 69-78.
ParserStart ==
    [articles |-> <<>>, authors |-> <<>>, keywords |-> <<>>,
     author |-> EmptyDict, pmid |-> EmptyDict,
     collect_ab |-> FALSE, collect_ad |-> FALSE, raised |-> ""]

Raise(st, exc) == [st EXCEPT !.raised = exc]

\* Lines 90-94 and 141-144: the accumulator becomes a row of the article table.
FlushArticle(articles_, pmid_) == Append(articles_, RowOf(pmid_, TAGS_ARTICLE))

\* Lines 100-103 and 147-149: the short name of an author.
ShortName(fau) == clean_text(SliceTo(fau, Find(fau, ",")), FALSE)

\* Lines 100-109 and 147-154: the accumulator, completed with SAU and the
\* PMID of the article accumulator as it is now, becomes a row of the
\* author table.
FlushAuthor(authors_, author_, pmid_) ==
    Append(authors_,
           RowOf(DictSet(DictSet(author_, T_SAU, ShortName(author_[T_FAU])),
                         T_PMID, pmid_[T_PMID]),
                 TAGS_AUTHOR))

\* Lines 114-119: one keyword row.
KeywordRow(pmid_, line) ==
    RowOf(DictSet(DictSet(EmptyDict, T_PMID, pmid_[T_PMID]),
                  T_MH, clean_text(line, TRUE)),
          TAGS_KEYWORD)

\* A variant of OnPMID that starts the new accumulator before it flushes.
OnPMID_ResetFirst(st, tag, line) ==
    [st EXCEPT !.articles = IF DOMAIN st.pmid # {}
                            THEN FlushArticle(st.articles, DictSet(EmptyDict, tag, line))
                            ELSE st.articles,
               !.pmid = DictSet(EmptyDict, tag, line)]

\* Lines 88-95.
OnPMID(st, tag, line) ==
    [st EXCEPT !.articles = IF DOMAIN st.pmid # {}
                            THEN FlushArticle(st.articles, st.pmid)
                            ELSE st.articles,
               !.pmid = DictSet(EmptyDict, tag, line)]

\* Lines 98-110.
OnFAU(st, tag, line) ==
    IF DOMAIN st.author # {}
    THEN IF T_FAU \notin DOMAIN st.author \/ T_PMID \notin DOMAIN st.pmid
         THEN Raise(st, "KeyError")
         ELSE [st EXCEPT !.authors = FlushAuthor(st.authors, st.author, st.pmid),
                         !.author = DictSet(EmptyDict, tag, line)]
    ELSE [st EXCEPT !.author = DictSet(EmptyDict, tag, line)]

\* A variant of OnMH that builds the keyword row and drops the result of the
\* concatenation.
OnMH_NotKept(st, line) ==
    IF T_PMID \notin DOMAIN st.pmid THEN Raise(st, "KeyError") ELSE st

\* Lines 113-119.
OnMH(st, line) ==
    IF T_PMID \notin DOMAIN st.pmid
    THEN Raise(st, "KeyError")
    ELSE [st EXCEPT !.keywords = Append(st.keywords, KeywordRow(st.pmid, line))]

\* Lines 122-124.
OnArticleTag(st, tag, line) ==
    [st EXCEPT !.pmid = DictSet(st.pmid, tag, clean_text(line, TRUE)),
               !.collect_ab = (tag = T_AB)]

\* Lines 126-128.
OnAuthorTag(st, tag, line) ==
    [st EXCEPT !.author = DictSet(st.author, tag, clean_text(line, TRUE)),
               !.collect_ad = (tag = T_AD)]

\* Lines 130-131.
OnAbstractContinuation(st, line) ==
    IF T_AB \notin DOMAIN st.pmid
    THEN Raise(st, "KeyError")
    ELSE [st EXCEPT !.pmid = DictSet(st.pmid, T_AB,
                                     st.pmid[T_AB] \o clean_text(line, TRUE))]

\* Lines 133-134.
OnAddressContinuation(st, line) ==
    IF T_AD \notin DOMAIN st.author
    THEN Raise(st, "KeyError")
    ELSE [st EXCEPT !.author = DictSet(st.author, T_AD,
                                       st.author[T_AD] \o clean_text(line, TRUE))]

\* Lines 136-138.
OnOtherLine(st) == [st EXCEPT !.collect_ab = FALSE, !.collect_ad = FALSE]

\* Lines 83-138: the body of the loop, for one raw line of the file.
ReadLine(st, raw) ==
    LET tag  == TagOf(raw)
        line == ValueOf(raw)
    IN  IF tag = T_PMID THEN OnPMID(st, tag, line)
        ELSE IF tag = T_FAU THEN OnFAU(st, tag, line)
        ELSE IF tag = T_MH THEN OnMH(st, line)
        ELSE IF tag \in TAGS_ARTICLE THEN OnArticleTag(st, tag, line)
        ELSE IF tag \in TAGS_AUTHOR THEN OnAuthorTag(st, tag, line)
        ELSE IF st.collect_ab /\ tag = <<>> THEN OnAbstractContinuation(st, line)
        ELSE IF st.collect_ad /\ tag = <<>> THEN OnAddressContinuation(st, line)
        ELSE OnOtherLine(st)

\* A variant of FlushLastArticle that forgets the article still open.
FlushLastArticle_Forgotten(st) == st

\* Lines 140-144: the last article is flushed.
FlushLastArticle(st) ==
    [st EXCEPT !.articles = FlushArticle(st.articles, st.pmid)]

\* Lines 146-154: the last author is flushed; author["FAU"] raises when no
\* FAU line opened an author.
FlushLastAuthor(st) ==
    IF T_FAU \notin DOMAIN st.author \/ T_PMID \notin DOMAIN st.pmid
    THEN Raise(st, "KeyError")
    ELSE [st EXCEPT !.authors = FlushAuthor(st.authors, st.author, st.pmid)]

\* Lines 140-154: what follows the loop.
EndOfFile(st) == FlushLastAuthor(FlushLastArticle(st))

\* PubmedFile.test_file, lines 180-186: the first four characters are PMID.
test_file(f) == Len(f) > 0 /\ SliceTo(f[1], 4) = T_PMID

\* PubmedFile(file_path): the whole parse of a file (a sequence of raw lines).
RECURSIVE ParseFrom(_, _, _)
ParseFrom(st, f, i) ==
    IF st.raised # "" THEN st
    ELSE IF i > Len(f) THEN EndOfFile(st)
    ELSE ParseFrom(ReadLine(st, f[i]), f, i + 1)

PubmedFile(f) == ParseFrom(ParserStart, f, 1)

(***************************************************************************)
(* The lines the modelled files are made of.                               *)
(***************************************************************************)
L_PMID1 == <<"P", "M", "I", "D", "-", " ", "1", "2", "3", "4", "5", "6", "\n">>
L_PMID2 == <<"P", "M", "I", "D", "-", " ", "2", "3", "4", "5", "6", "7", "\n">>
L_TI    == <<"T", "I", " ", " ", "-", " ", "S", "o", "m", "e", " ", "T", "i", "t", "l", "e", "\n">>
L_TA    == <<"T", "A", " ", " ", "-", " ", "J", " ", "M", "r", "i", "\n">>
L_AB    == <<"A", "B", " ", " ", "-", " ", "A", "b", " ", "C", "\n">>
L_FAU1  == <<"F", "A", "U", " ", "-", " ", "D", "o", "e", ",", " ", "J", "\n">>
L_FAU2  == <<"F", "A", "U", " ", "-", " ", "L", "i", "\n">>
L_AD    == <<"A", "D", " ", " ", "-", " ", "A", "d", " ", "X", "\n">>
L_MH    == <<"M", "H", " ", " ", "-", " ", "M", "h", " ", "Y", "\n">>
L_CONT  == <<" ", " ", " ", " ", " ", " ", "m", "o", " ", "R", "e", "\n">>
L_BLANK == <<"\n">>
L_AU    == <<"A", "U", " ", " ", "-", " ", "D", "o", "e", " ", "J", "\n">>

\* The lines that open an article.
FirstLines == {L_PMID1, L_PMID2}

\* The lines a file goes on with.
Lines == {L_PMID1, L_PMID2, L_TI, L_AB, L_FAU1, L_FAU2, L_AD, L_MH,
          L_CONT, L_BLANK, L_AU}

\* The sequences of length n over a set.
RECURSIVE SeqsOfLen(_, _)
SeqsOfLen(S, n) ==
    IF n = 0 THEN {<<>>}
    ELSE {Append(s, x) : s \in SeqsOfLen(S, n - 1), x \in S}

\* The files test_file accepts, of at most MaxLines lines.
ParsedFiles ==
    {<<first>> \o rest : first \in FirstLines,
                         rest \in UNION {SeqsOfLen(Lines, n) : n \in 0..(MaxLines - 1)}}

(***************************************************************************)
(* PubmedData (pubmed/data.py): the tables of one or more parsed files.    *)
(* A PubmedData is a record [articles, authors, keywords] of tables.       *)
(***************************************************************************)
\* DataFrame.fillna(""): every missing value becomes the empty string.
FillNa(table) ==
    [i \in 1..Len(table) |->
        [c \in DOMAIN table[i] |-> IF table[i][c] = NaN THEN <<>> ELSE table[i][c]]]

\* articles["TA"].str.replace(" ", "_")
UnderscoreTA(table) ==
    [i \in 1..Len(table) |->
        [table[i] EXCEPT ![T_TA] = Replace(table[i][T_TA], " ", "_")]]

\* PubmedData.__init__, lines 90-94: the clean-up of the three tables.
CleanUp(d) ==
    [articles |-> UnderscoreTA(FillNa(d.articles)),
     authors  |-> FillNa(d.authors),
     keywords |-> FillNa(d.keywords)]

\* PubmedData._get_file_data, lines 177-182.
FileData(f) ==
    LET tmp_file == PubmedFile(f)
    IN  [articles |-> tmp_file.articles,
         authors  |-> tmp_file.authors,
         keywords |-> tmp_file.keywords]

\* PubmedData(file_path=f)
PubmedDataOfFile(f) == CleanUp(FileData(f))

\* pandas.concat([a, b], ignore_index=True, axis=0, join="outer") of two
\* tables that have the same columns.
Concat(a, b) == a \o b

\* DataFrame.drop_duplicates(keep="first"): a row equal in all columns to an
\* earlier row is removed.
RECURSIVE DropDuplicates(_)
DropDuplicates(table) ==
    IF table = <<>> THEN <<>>
    ELSE LET n    == Len(table)
             init == DropDuplicates(SubSeq(table, 1, n - 1))
         IN  IF \E i \in 1..(n - 1) : table[i] = table[n]
             THEN init
             ELSE Append(init, table[n])

\* DataFrame.drop_duplicates(keep=False): every row that occurs more than
\* once is removed altogether.
DropAllDuplicated(table) ==
    LET keep(i) == \A j \in 1..Len(table) : j # i => table[j] # table[i]
        F[i \in 0..Len(table)] ==
            IF i = 0 THEN <<>>
            ELSE IF keep(i) THEN Append(F[i - 1], table[i]) ELSE F[i - 1]
    IN  F[Len(table)]

\* DataFrame.drop_duplicates(subset=["PMID"], keep="first"): a row with the
\* PMID of an earlier row is removed.
RECURSIVE DropDuplicatePmids(_)
DropDuplicatePmids(table) ==
    IF table = <<>> THEN <<>>
    ELSE LET n    == Len(table)
             init == DropDuplicatePmids(SubSeq(table, 1, n - 1))
         IN  IF \E i \in 1..(n - 1) : table[i][T_PMID] = table[n][T_PMID]
             THEN init
             ELSE Append(init, table[n])

\* DataFrame.drop_duplicates(keep="last"): a row equal in all columns to a
\* later row is removed.
RECURSIVE DropDuplicatesKeepLast(_)
DropDuplicatesKeepLast(table) ==
    IF table = <<>> THEN <<>>
    ELSE LET rest == DropDuplicatesKeepLast(Tail(table))
         IN  IF \E i \in 2..Len(table) : table[i] = table[1]
             THEN rest
             ELSE <<table[1]>> \o rest

\* Variants of __add__: one that forgets to merge the article table, one
\* that does not remove duplicates, one that removes every duplicated row
\* (keep=False), one that keeps the last of equal rows (keep="last"), one
\* that compares the PMID column only.
Add_ArticlesNotMerged(self, other) ==
    [articles |-> DropDuplicates(self.articles),
     authors  |-> DropDuplicates(Concat(self.authors, other.authors)),
     keywords |-> DropDuplicates(Concat(self.keywords, other.keywords))]

Add_NoDedup(self, other) ==
    [articles |-> Concat(self.articles, other.articles),
     authors  |-> Concat(self.authors, other.authors),
     keywords |-> Concat(self.keywords, other.keywords)]

Add_KeepNone(self, other) ==
    [articles |-> DropAllDuplicated(Concat(self.articles, other.articles)),
     authors  |-> DropAllDuplicated(Concat(self.authors, other.authors)),
     keywords |-> DropAllDuplicated(Concat(self.keywords, other.keywords))]

Add_KeepLast(self, other) ==
    [articles |-> DropDuplicatesKeepLast(Concat(self.articles, other.articles)),
     authors  |-> DropDuplicatesKeepLast(Concat(self.authors, other.authors)),
     keywords |-> DropDuplicatesKeepLast(Concat(self.keywords, other.keywords))]

Add_PmidOnly(self, other) ==
    [articles |-> DropDuplicatePmids(Concat(self.articles, other.articles)),
     authors  |-> DropDuplicatePmids(Concat(self.authors, other.authors)),
     keywords |-> DropDuplicatePmids(Concat(self.keywords, other.keywords))]

\* PubmedData.__add__, lines 219-243, for an operand that is a PubmedData.
Add(self, other) ==
    [articles |-> DropDuplicates(Concat(self.articles, other.articles)),
     authors  |-> DropDuplicates(Concat(self.authors, other.authors)),
     keywords |-> DropDuplicates(Concat(self.keywords, other.keywords))]

\* No PubmedData (a sum not computed yet, a directory not loaded yet).
NoData == [articles |-> <<>>, authors |-> <<>>, keywords |-> <<>>]

(***************************************************************************)
(* The files the merged bibliographies come from.  F_B has two equal       *)
(* keyword rows; F_A and F_B share an author row and differ in the article *)
(* row of the same PMID; F_D holds two articles.                           *)
(***************************************************************************)
F_A == <<L_PMID1, L_TA, L_FAU1, L_MH>>
F_B == <<L_PMID1, L_FAU1, L_MH, L_MH>>
F_C == <<L_PMID2, L_FAU2, L_MH>>
F_D == <<L_PMID1, L_FAU1, L_PMID2, L_FAU2>>

MergeFiles == {F_A, F_B, F_C, F_D}

\* The most files a loaded directory holds.
MaxDirFiles == 3

\* The sums of the operands A, B and C that are formed, each from two
\* operands or earlier sums.
SumNames == {"AA", "AB", "BA", "BC", "AB_C", "A_BC"}

(***************************************************************************)
(* Python integers of any size: a natural number is the sequence of its    *)
(* decimal digits, most significant first, without leading zeros (<<0>>    *)
(* is zero).                                                               *)
(***************************************************************************)
DigitChars == <<"0", "1", "2", "3", "4", "5", "6", "7", "8", "9">>

HexChars == <<"0", "1", "2", "3", "4", "5", "6", "7", "8", "9",
              "a", "b", "c", "d", "e", "f">>

IsDigit(c) == \E i \in 1..Len(DigitChars) : DigitChars[i] = c

DigitOf(c) == (CHOOSE i \in 1..Len(DigitChars) : DigitChars[i] = c) - 1

RECURSIVE Normalize(_)
Normalize(ds) ==
    IF Len(ds) > 1 /\ ds[1] = 0 THEN Normalize(Tail(ds)) ELSE ds

Zero == <<0>>

\* a + b, digit by digit from the right; C[i] is the carry out of the i
\* lowest positions.
AddDigits(a, b) ==
    LET n == Max(Len(a), Len(b))
        da(i) == IF i <= Len(a) THEN a[Len(a) + 1 - i] ELSE 0
        db(i) == IF i <= Len(b) THEN b[Len(b) + 1 - i] ELSE 0
        C[i \in 0..n] == IF i = 0 THEN 0 ELSE (da(i) + db(i) + C[i - 1]) \div 10
    IN  <<C[n]>> \o [k \in 1..n |-> (da(n + 1 - k) + db(n + 1 - k) + C[n - k]) % 10]

\* x evaluated once, then F applied to its value.
On(x, F(_)) == CHOOSE r \in {F(v) : v \in {x}} : TRUE

BigAdd(a, b) ==
    LET Sum(pair) == Normalize(AddDigits(pair[1], pair[2]))
    IN  On(<<a, b>>, Sum)

\* divmod(ds, 16) by long division: [q |-> quotient, r |-> remainder];
\* R[i] is the remainder of the number made of the first i digits.
LongDivision16(ds) ==
    LET n == Len(ds)
        R[i \in 0..n] == IF i = 0 THEN 0 ELSE (R[i - 1] * 10 + ds[i]) % 16
    IN  [q |-> Normalize([i \in 1..n |-> (R[i - 1] * 10 + ds[i]) \div 16]),
         r |-> R[n]]

DivMod16(ds) == On(ds, LongDivision16)

RECURSIVE HexDigits(_)
HexDigits(ds) ==
    LET Step(dm) == HexDigits(dm.q) \o <<HexChars[dm.r + 1]>>
    IN  IF ds = Zero THEN <<>> ELSE On(DivMod16(ds), Step)

\* hex(n) for n >= 0: "0x" and the lower-case hexadecimal digits.
Hex(ds) == <<"0", "x">> \o (IF ds = Zero THEN <<"0">> ELSE HexDigits(ds))

\* str.isnumeric()
IsNumeric(s) == s # <<>> /\ \A i \in 1..Len(s) : IsDigit(s[i])

\* int(s) succeeds: an optional sign and decimal digits.
IntParses(s) ==
    IF s # <<>> /\ s[1] \in {"+", "-"} THEN IsNumeric(Tail(s)) ELSE IsNumeric(s)

\* int(s) for a string of digits with an optional "+".
IntOf(s) ==
    LET digits == IF s[1] = "+" THEN Tail(s) ELSE s
    IN  Normalize([i \in 1..Len(digits) |-> DigitOf(digits[i])])

\* The end (exclusive) of the run of digits that starts at index i.
RECURSIVE DigitRunEnd(_, _)
DigitRunEnd(s, i) ==
    IF i <= Len(s) /\ IsDigit(s[i]) THEN DigitRunEnd(s, i + 1) ELSE i

\* re.findall(r'[+-]?\d+', s): the matches from index i on, left to right.
RECURSIVE FindAllInts(_, _)
FindAllInts(s, i) ==
    IF i > Len(s) THEN <<>>
    ELSE IF IsDigit(s[i])
         THEN <<SubSeq(s, i, DigitRunEnd(s, i) - 1)>> \o FindAllInts(s, DigitRunEnd(s, i))
    ELSE IF s[i] \in {"+", "-"} /\ i < Len(s) /\ IsDigit(s[i + 1])
         THEN <<SubSeq(s, i, DigitRunEnd(s, i + 1) - 1)>>
              \o FindAllInts(s, DigitRunEnd(s, i + 1))
    ELSE FindAllInts(s, i + 1)

\* sum(map(int, tokens)); a UID holds no "-", so no token is negative.
RECURSIVE SumInts(_)
SumInts(tokens) ==
    IF tokens = <<>> THEN Zero
    ELSE BigAdd(SumInts(SubSeq(tokens, 1, Len(tokens) - 1)), IntOf(tokens[Len(tokens)]))

(***************************************************************************)
(* DicomFile._anonymize_dataset (dicom/files.py).  A dataset is a function *)
(* from the names of the tags it holds to their values.                    *)
(***************************************************************************)
TAGS_CLEARED ==
    {"InstitutionName", "InstitutionAddress", "ReferringPhysicianName",
     "ReferringPhysicianAddress", "ReferringPhysicianTelephoneNumbers",
     "InstitutionalDepartmentName", "PhysiciansOfRecord",
     "PerformingPhysicianName", "NameOfPhysiciansReadingStudy",
     "OperatorsName", "AdmittingDiagnosesDescription", "OtherPatientIDs",
     "OtherPatientNames", "MedicalRecordLocator", "EthnicGroup", "Occupation",
     "AdditionalPatientHistory", "PatientComments", "RequestingPhysician",
     "RequestingService", "RequestedProcedureDescription",
     "ScheduledPerformingPhysicianName", "PerformedStationAETitle",
     "RequestAttributesSequence", "RequestedProcedureID",
     "IssueDateOfImagingServiceRequest", "ContentSequence",
     "ImplementationVersionName", "ProcedureCodeSequence",
     "PerformedProcedureStepDescription", "PerformedProtocolCodeSequence",
     "RetrieveAETitle", "ReferencedPerformedProcedureStepSequence"}

\* The number of characters of the fingerprint kept for AccessionNumber
\* and StudyID.
FingerprintKept == 16

\* Lines 310-313: the fingerprint of a StudyInstanceUID.
UidSum(study_uid) == SumInts(FindAllInts(Replace(study_uid, ".", "+"), 1))

\* A variant of the fingerprint without .upper().
Fingerprint_NotUpper(study_uid) == SliceFrom(Hex(UidSum(study_uid)), 2)

Fingerprint(study_uid) == SliceFrom(Upper(Hex(UidSum(study_uid))), 2)

\* A variant of the truncation that keeps the first characters.
Truncated_First(fingerprint) == SliceTo(fingerprint, FingerprintKept)

\* Lines 343-344: study_uid[-16:]
Truncated(fingerprint) == SliceFrom(fingerprint, -FingerprintKept)

\* Lines 320-321: the new patient ID; int() raises ValueError on a string
\* that is not a number.
NewPidText(serial_num, study_date, study_time) ==
    serial_num \o SliceFrom(study_date, 2) \o SliceTo(study_time, 4)

NewPid(text) == SliceFrom(Upper(Hex(IntOf(text))), 2)

\* A variant of the serial number used for the patient ID that always takes
\* the date.
SerialNum_AlwaysToday(read_serial, today_ymd) == today_ymd

\* Lines 316-317: a serial number that is not numeric is replaced by today's
\* date as %y%m%d.
SerialNum(read_serial, today_ymd) ==
    IF IsNumeric(read_serial) THEN read_serial ELSE today_ymd

\* A variant of YearOnly that writes the date with dashes.
YearOnly_Dashed(date) == SliceTo(date, -4) \o <<"-", "0", "1", "-", "0", "1">>

\* Lines 322 and 324: MMDD replaced by 0101.
YearOnly(date) == SliceTo(date, -4) \o <<"0", "1", "0", "1">>

\* A variant of Overwrites that also replaces StudyInstanceUID by its
\* fingerprint.
Overwrites_WithStudyUid(new_station, new_study_date, fingerprint, new_pid, new_birth_date) ==
    [StationName          |-> new_station,
     InstanceCreationDate |-> new_study_date,
     StudyDate            |-> new_study_date,
     SeriesDate           |-> new_study_date,
     AcquisitionDate      |-> new_study_date,
     ContentDate          |-> new_study_date,
     AccessionNumber      |-> Truncated(fingerprint),
     PatientName          |-> new_pid,
     PatientID            |-> new_pid,
     PatientBirthDate     |-> new_birth_date,
     StudyID              |-> Truncated(fingerprint),
     StudyInstanceUID     |-> fingerprint]

\* Lines 328-345: the overwritten tags and their new values.
Overwrites(new_station, new_study_date, fingerprint, new_pid, new_birth_date) ==
    [StationName          |-> new_station,
     InstanceCreationDate |-> new_study_date,
     StudyDate            |-> new_study_date,
     SeriesDate           |-> new_study_date,
     AcquisitionDate      |-> new_study_date,
     ContentDate          |-> new_study_date,
     AccessionNumber      |-> Truncated(fingerprint),
     PatientName          |-> new_pid,
     PatientID            |-> new_pid,
     PatientBirthDate     |-> new_birth_date,
     StudyID              |-> Truncated(fingerprint)]

\* A variant of Rewritten that deletes the tags of the clear list.
Rewritten_Deleted(dataset_, values) ==
    [t \in DOMAIN dataset_ \ TAGS_CLEARED |->
        IF t \in DOMAIN values THEN values[t] ELSE dataset_[t]]

\* A variant of Rewritten that leaves the tags of the clear list as they
\* are.
Rewritten_ClearedKept(dataset_, values) ==
    [t \in DOMAIN dataset_ |->
        IF t \in DOMAIN values /\ t \notin TAGS_CLEARED THEN values[t]
        ELSE dataset_[t]]

\* Lines 346-362: the tags present are overwritten, then those of the clear
\* list that are present are emptied.
Rewritten(dataset_, values) ==
    [t \in DOMAIN dataset_ |->
        IF t \in TAGS_CLEARED THEN <<>>
        ELSE IF t \in DOMAIN values THEN values[t]
        ELSE dataset_[t]]

\* What _anonymize_dataset ends with: the exception raised ("" for none),
\* the status and dataset returned, and the fingerprint and patient ID it
\* computed.
Outcome(raised_, status, dataset_, fingerprint, new_pid) ==
    [raised |-> raised_, status |-> status, dataset |-> dataset_,
     fingerprint |-> fingerprint, new_pid |-> new_pid]

\* Lines 297-364.  today_Ymd and today_ymd are datetime.today() as %Y%m%d
\* and %y%m%d, node is platform.node().
AnonymizeDataset(source, today_Ymd, today_ymd, node) ==
    IF {"StudyDate", "StudyTime", "StudyInstanceUID"} \ DOMAIN source # {}
    THEN Outcome("KeyError", FALSE, source, <<>>, <<>>)
    ELSE
    LET study_date  == source["StudyDate"]
        study_time  == source["StudyTime"]
        study_uid   == source["StudyInstanceUID"]
        dataset_    == IF "DeviceSerialNumber" \in DOMAIN source THEN source
                       ELSE [t \in DOMAIN source \cup {"DeviceSerialNumber"} |->
                               IF t = "DeviceSerialNumber" THEN today_Ymd ELSE source[t]]
        read_serial == dataset_["DeviceSerialNumber"]
        serial_num  == SerialNum(read_serial, today_ymd)
        pid_text    == NewPidText(serial_num, study_date, study_time)
        Rest(fingerprint) ==
            IF ~IntParses(pid_text)
            THEN Outcome("ValueError", FALSE, source, fingerprint, <<>>)
            ELSE LET NewValues(new_pid) ==
                         IF "PatientBirthDate" \notin DOMAIN dataset_
                         THEN Outcome("KeyError", FALSE, source, fingerprint, new_pid)
                         ELSE Outcome("", TRUE,
                                      Rewritten(dataset_,
                                                Overwrites(Upper(node), YearOnly(study_date),
                                                           fingerprint, new_pid,
                                                           YearOnly(dataset_["PatientBirthDate"]))),
                                      fingerprint, new_pid)
                 IN  On(NewPid(pid_text), NewValues)
    IN  On(Fingerprint(study_uid), Rest)

(***************************************************************************)
(* The datasets the transform is run on.                                   *)
(***************************************************************************)
UID_SPEC  == <<"1", ".", "2", ".", "8", "4", "0", ".", "1", "1", "3">>
UID_UUID  == <<"2", ".", "2", "5", ".", "3", "2", "9", "8", "0", "0", "7", "3", "5", "6", "9", "8", "5", "8", "6", "6", "2", "9", "2", "9", "5", "6", "4", "1", "9", "7", "8", "5", "1", "1", "5", "0", "6", "1", "7", "2", "9", "1", "8">>
UID_ZEROS == <<"1", ".", "0", "2", ".", "0">>
UID_ONE   == <<"7">>
StudyUids == {UID_SPEC, UID_UUID, UID_ZEROS, UID_ONE}

\* A dataset with every modelled tag.
FullDataset(study_uid, serial) ==
    [StudyDate          |-> <<"2", "0", "2", "4", "0", "3", "1", "5">>,
     StudyTime          |-> <<"1", "0", "1", "5", "3", "0", ".", "5">>,
     StudyInstanceUID   |-> study_uid,
     SeriesInstanceUID  |-> <<"1", ".", "2", ".", "3", ".", "4">>,
     DeviceSerialNumber |-> serial,
     PatientBirthDate   |-> <<"1", "9", "8", "0", "0", "2", "2", "9">>,
     PatientName        |-> <<"D", "o", "e", "^", "J", "o", "h", "n">>,
     PatientID          |-> <<"P", "0", "0", "1">>,
     AccessionNumber    |-> <<"A", "C", "C", "4", "2">>,
     StudyID            |-> <<"S", "7">>,
     StationName        |-> <<"M", "R", "1">>,
     SeriesDate         |-> <<"2", "0", "2", "4", "0", "3", "1", "6">>,
     Modality           |-> <<"M", "R">>,
     InstitutionName    |-> <<"C", "l", "i", "n", "i", "c">>,
     OperatorsName      |-> <<"O", "p">>]

\* The tags a modelled dataset may lack.
OptionalTags ==
    {"StudyDate", "DeviceSerialNumber", "PatientBirthDate", "AccessionNumber",
     "StudyID", "StationName", "InstitutionName"}

SerialNumbers == {<<"4", "7", "1", "1">>, <<"S", "N", "-", "1">>}

Restrict(f, S) == [t \in S |-> f[t]]

SourceDatasets ==
    {Restrict(FullDataset(u, sn), DOMAIN FullDataset(u, sn) \ missing) :
        u \in StudyUids, sn \in SerialNumbers, missing \in SUBSET OptionalTags}

\* datetime.today() as [Ymd |-> %Y%m%d, ymd |-> %y%m%d].
Todays ==
    {[Ymd |-> <<"2", "0", "2", "6", "1", "1", "0", "1">>, ymd |-> <<"2", "6", "1", "1", "0", "1">>],
     [Ymd |-> <<"2", "0", "2", "7", "0", "1", "0", "2">>, ymd |-> <<"2", "7", "0", "1", "0", "2">>]}

\* platform.node()
Nodes == {<<"h", "o", "s", "t", "-", "a">>, <<"H", "o", "s", "t", "-", "B">>}

\* Nothing anonymized yet.
NoOutcome == Outcome("", FALSE, EmptyDict, <<>>, <<>>)

(***************************************************************************)
(* The file system, DicomFile and DicomDir (dicom/files.py) and            *)
(* GenericDir.list_files (utils/files.py).  A path is the sequence of its  *)
(* names; a file system is the files it holds (a function from paths to    *)
(* contents) and the set of its directories.                               *)
(***************************************************************************)
\* os.sep
Sep == "/"

\* The text of a path: its names joined by os.sep.
RECURSIVE PathText(_)
PathText(path) ==
    IF path = <<>> THEN <<>>
    ELSE IF Len(path) = 1 THEN path[1]
    ELSE path[1] \o <<Sep>> \o PathText(Tail(path))

\* sub in s
Contains(s, sub) ==
    \E i \in 1..(Len(s) - Len(sub) + 1) : SubSeq(s, i, i + Len(sub) - 1) = sub

ANONYMIZED == <<"a", "n", "o", "n", "y", "m", "i", "z", "e", "d">>

\* os.path.dirname
DirName(path) == SubSeq(path, 1, Len(path) - 1)

\* os.path.isfile, os.path.isdir
IsFile(fs_, path) == path \in DOMAIN fs_.files

IsDir(fs_, path) == path \in fs_.dirs

\* GenericDir.test_dir, lines 340-361; accessible tells whether the
\* directory can be read and written.
test_dir(fs_, dir_path, accessible) ==
    /\ IsDir(fs_, dir_path)
    /\ ~IsFile(fs_, dir_path)
    /\ accessible

\* DicomFile.test_file, lines 145-159: the file exists, pydicom reads it
\* and it holds Modality.
DicomFile_test_file(fs_, file_path) ==
    /\ IsFile(fs_, file_path)
    /\ fs_.files[file_path].dicom
    /\ "Modality" \in DOMAIN fs_.files[file_path].dataset

\* The elements of a set, one after the other.
RECURSIVE SeqOfSet(_)
SeqOfSet(S) ==
    IF S = {} THEN <<>>
    ELSE LET x == CHOOSE y \in S : TRUE IN <<x>> \o SeqOfSet(S \ {x})

\* The names of the entries of a directory.
Entries(fs_, dir_path) ==
    {p[Len(p)] : p \in {q \in (DOMAIN fs_.files) \cup fs_.dirs :
                            Len(q) = Len(dir_path) + 1 /\ DirName(q) = dir_path}}

\* os.listdir: the names in a directory, in the order the system gives
\* them, which is the order of `names` for the names it holds; the names
\* made since (the directories and files of the anonymized output) follow.
ListDir(fs_, dir_path, names) ==
    SelectSeq(names, LAMBDA nm : nm \in Entries(fs_, dir_path))
    \o SeqOfSet(Entries(fs_, dir_path) \ {names[i] : i \in 1..Len(names)})

\* GenericDir.list_files with file_class = DicomFile, lines 424-440.
\* ListEntries is the loop of lines 432-438 over the entries not yet seen.
RECURSIVE list_files(_, _, _, _), ListEntries(_, _, _, _, _)
ListEntries(fs_, dir_path, entries, recur, names) ==
    IF entries = <<>> THEN <<>>
    ELSE LET file_path == Append(dir_path, Head(entries))
             here == IF DicomFile_test_file(fs_, file_path) THEN <<file_path>>
                     ELSE IF recur THEN list_files(fs_, file_path, recur, names)
                     ELSE <<>>
         IN  here \o ListEntries(fs_, dir_path, Tail(entries), recur, names)

list_files(fs_, dir_path, recur, names) ==
    IF DicomFile_test_file(fs_, dir_path) THEN <<dir_path>>
    ELSE IF IsDir(fs_, dir_path)
    THEN ListEntries(fs_, dir_path, ListDir(fs_, dir_path, names), recur, names)
    ELSE <<>>

TAGS_DATAFRAME ==
    <<"ImageType", "InstanceCreationDate", "StudyDate", "SeriesDate",
      "AcquisitionDate", "ContentDate", "AccessionNumber", "Modality",
      "StationName", "PatientName", "PatientID", "PatientBirthDate",
      "SeriesInstanceUID", "StudyID", "InstanceNumber">>

UNK == <<"U", "N", "K">>

\* A variant of get_dicom_info that leaves the tags the file lacks out of
\* the row.
get_dicom_info_PresentOnly(dataset_) ==
    [tag \in {TAGS_DATAFRAME[i] : i \in 1..Len(TAGS_DATAFRAME)} \cap DOMAIN dataset_ |->
        dataset_[tag]]

\* DicomFile.get_dicom_info, lines 277-284.
get_dicom_info(dataset_) ==
    [tag \in {TAGS_DATAFRAME[i] : i \in 1..Len(TAGS_DATAFRAME)} |->
        IF tag \in DOMAIN dataset_ THEN dataset_[tag] ELSE UNK]

\* os.remove for each path of a list.
Removed(fs_, paths) ==
    [fs_ EXCEPT !.files = [p \in DOMAIN fs_.files \ {paths[i] : i \in 1..Len(paths)}
                              |-> fs_.files[p]]]

\* DicomDir.__init__, lines 393-419: the directory as constructed (its
\* file_list and dicom_df, a row being the info of a file and its path),
\* the file list GenericDir.__init__ gave it (line 394) and the file system
\* it leaves.  The table gets its path column with the first row that is
\* concatenated (lines 408-412), so that with no file kept dicom_df.path
\* (line 418) raises AttributeError, after the removals of line 400.
DicomDirInit(fs_, dir_path, names) ==
    LET listed     == list_files(fs_, dir_path, TRUE, names)
        anonymized == SelectSeq(listed, LAMBDA f : Contains(PathText(f), ANONYMIZED))
        kept       == SelectSeq(listed, LAMBDA f : ~Contains(PathText(f), ANONYMIZED))
        after      == Removed(fs_, anonymized)
        dicom_df   == [i \in 1..Len(kept) |->
                          [info |-> get_dicom_info(after.files[kept[i]].dataset),
                           path |-> kept[i]]]
    IN  [raised |-> IF kept = <<>> THEN "AttributeError" ELSE "",
         fs |-> after,
         listed |-> listed,
         file_list |-> [i \in 1..Len(dicom_df) |-> dicom_df[i].path],
         dicom_df |-> dicom_df]

\* The decimal text of a number.
DecText(ds) == [i \in 1..Len(ds) |-> DigitChars[ds[i] + 1]]

\* f"{inst_num:05}" for an integer that is not negative.
Format05(ds) ==
    LET text == DecText(ds)
    IN  [i \in 1..(5 - Len(text)) |-> "0"] \o text

\* Lines 232-238.  The value pydicom gives for ImageType is the list of its
\* components, or the component itself (a str) when there is only one; the
\* third item of a str is its third character.
ImgType(dataset_) ==
    IF "ImageType" \in DOMAIN dataset_
    THEN LET components == dataset_["ImageType"]
             single     == Len(components) = 1
             img_type   == IF single THEN components[1] ELSE components
         IN  IF Len(img_type) > 2
             THEN (IF single THEN <<img_type[3]>> ELSE img_type[3])
             ELSE UNK
    ELSE UNK

\* Lines 240-245; pydicom gives InstanceNumber as an integer.  (The absent
\* case formats the str "00000" with width 05, which leaves it as it is.)
InstNum(dataset_) ==
    IF "InstanceNumber" \in DOMAIN dataset_
    THEN Format05(IntOf(dataset_["InstanceNumber"]))
    ELSE <<"0", "0", "0", "0", "0">>

\* Lines 247-252.
AccNum(dataset_) ==
    IF "AccessionNumber" \in DOMAIN dataset_
    THEN dataset_["AccessionNumber"]
    ELSE <<"1", "2", "3", "4", "5">>

\* DicomFile._build_anonymized_filepath, lines 227-259: the names of the
\* path, for a dataset that holds PatientID, SeriesInstanceUID and Modality.
build_anonymized_filepath(dataset_) ==
    <<dataset_["PatientID"],
      SliceFrom(AccNum(dataset_), -16),
      SliceFrom(dataset_["SeriesInstanceUID"], -16) \o <<"_">> \o dataset_["Modality"],
      ImgType(dataset_) \o <<"_">> \o InstNum(dataset_) \o <<".", "d", "c", "m">>>>

\* os.makedirs(dir_path)
MakeDirs(fs_, dir_path) ==
    [fs_ EXCEPT !.dirs = @ \cup {SubSeq(dir_path, 1, k) : k \in 1..Len(dir_path)}]

\* dataset.save_as(path)
SaveAs(fs_, path, dataset_) ==
    [fs_ EXCEPT !.files = [p \in DOMAIN fs_.files \cup {path} |->
                              IF p = path THEN [dicom |-> TRUE, dataset |-> dataset_]
                              ELSE fs_.files[p]]]

\* What DicomFile.anonymize ends with: the exception raised ("" for none),
\* the value returned, the file system it leaves and the path it saved to
\* (<<>> for none).
FileOutcome(raised_, status, fs_, saved) ==
    [raised |-> raised_, status |-> status, fs |-> fs_, saved |-> saved]

\* os.path.splitext of a file name: <<root, extension>>.  The extension
\* starts at the last dot, unless only dots precede that dot.
SplitExt(name) ==
    LET dots == {i \in 1..Len(name) : name[i] = "."}
        last == CHOOSE i \in dots : \A j \in dots : j <= i
    IN  IF dots = {} \/ (\A j \in 1..(last - 1) : name[j] = ".")
        THEN <<name, <<>>>>
        ELSE <<SubSeq(name, 1, last - 1), SubSeq(name, last, Len(name))>>

\* DicomFile(file_path), utils/files.py lines 63-72 and dicom/files.py line
\* 127: the exception raised ("" for none) and the object made, with the
\* dataset read from the file.
DicomFileNew(fs_, file_path) ==
    IF ~DicomFile_test_file(fs_, file_path)
    THEN [raised |-> "FileNotFoundError", self |-> EmptyDict]
    ELSE [raised |-> "",
          self |-> [file_path |-> file_path,
                    file_name |-> file_path[Len(file_path)],
                    file_ext  |-> SplitExt(file_path[Len(file_path)])[2],
                    file_dir  |-> DirName(file_path),
                    dataset   |-> fs_.files[file_path].dataset]]

SUFFIX == <<"_", "a", "n", "o", "n", "y", "m", "i", "z", "e", "d", ".", "d", "c", "m">>

\* Lines 184-185: the path of the output when no directory is given.
SuffixedPath(self) ==
    Append(self.file_dir, SliceTo(self.file_name, -Len(self.file_ext)) \o SUFFIX)

\* DicomFile.anonymize(new_dir_path), lines 182-210, for new_dir_path None
\* or <<directory>>; accessible tells whether the directory given can be
\* read and written.  The dataset of the object is not assigned to: the
\* transform works on a copy of it (line 298).
anonymize(self, fs_, new_dir_path, accessible, today_, node_) ==
    IF new_dir_path # <<>> /\ ~test_dir(fs_, new_dir_path[1], accessible)
    THEN FileOutcome("", FALSE, fs_, <<>>)
    ELSE
    LET new_path == IF new_dir_path = <<>> THEN SuffixedPath(self) ELSE new_dir_path[1]
        is_dir   == IF new_dir_path = <<>> THEN test_dir(fs_, new_path, TRUE) ELSE TRUE
        Save(out) ==
            IF out.raised # "" THEN FileOutcome(out.raised, FALSE, fs_, <<>>)
            ELSE IF ~out.status THEN FileOutcome("", FALSE, fs_, <<>>)
            ELSE IF is_dir /\ {"PatientID", "SeriesInstanceUID", "Modality"} \ DOMAIN out.dataset # {}
            THEN FileOutcome("KeyError", FALSE, fs_, <<>>)
            ELSE LET full == IF is_dir THEN new_path \o build_anonymized_filepath(out.dataset)
                             ELSE new_path
                     made == IF IsDir(fs_, DirName(full)) \/ IsFile(fs_, DirName(full))
                             THEN fs_ ELSE MakeDirs(fs_, DirName(full))
                 IN  FileOutcome("", TRUE, SaveAs(made, full, out.dataset), full)
    IN  On(AnonymizeDataset(self.dataset, today_.Ymd, today_.ymd, node_), Save)

\* DicomFile(file_path).anonymize(new_dir_path) as DicomDir.anonymize calls
\* it, lines 439-440.
DicomFileAnonymize(fs_, file_path, new_dir_path, accessible, today_, node_) ==
    IF ~DicomFile_test_file(fs_, file_path)
    THEN FileOutcome("FileNotFoundError", FALSE, fs_, <<>>)
    ELSE anonymize(DicomFileNew(fs_, file_path).self, fs_, <<new_dir_path>>,
                   accessible, today_, node_)

\* A variant of the loop that goes on after a file that was not anonymized.
AfterFile_GoesOn(outcome) ==
    IF outcome.raised # "" THEN "raised" ELSE "loop"

\* DicomDir.anonymize, lines 438-441: where the loop stands after a file.
AfterFile(outcome) ==
    IF outcome.raised # "" THEN "raised"
    ELSE IF ~outcome.status THEN "false"
    ELSE "loop"

(***************************************************************************)
(* The directories DicomDir is constructed on.                             *)
(***************************************************************************)
N_data  == <<"d", "a", "t", "a">>
N_sub   == <<"s", "u", "b">>
N_a     == <<"a", ".", "d", "c", "m">>
N_b     == <<"b", "_", "a", "n", "o", "n", "y", "m", "i", "z", "e", "d", ".", "d", "c", "m">>
N_c     == <<"c", ".", "d", "c", "m">>
N_d     == <<"d", ".", "d", "c", "m">>
N_e     == <<"e", ".", "d", "c", "m">>
N_notes == <<"n", "o", "t", "e", "s", ".", "t", "x", "t">>

\* The directory given to DicomDir, as an absolute path.
Root == <<N_data>>

P_a     == Root \o <<N_a>>
P_b     == Root \o <<N_b>>
P_c     == Root \o <<ANONYMIZED, N_c>>
P_d     == Root \o <<N_sub, N_d>>
P_e     == Root \o <<N_sub, N_e>>
P_notes == Root \o <<N_notes>>

\* The orders os.listdir may give the names in.
NamesForward == <<N_a, ANONYMIZED, N_b, N_notes, N_sub, N_c, N_d, N_e>>

Reverse(s) == [i \in 1..Len(s) |-> s[Len(s) + 1 - i]]

ListingOrders == {NamesForward, Reverse(NamesForward)}

IT_THREE == <<<<"O", "R", "I", "G">>, <<"P", "R", "I", "M">>, <<"M">>>>
IT_TWO   == <<<<"O", "R", "I", "G">>, <<"P", "R", "I", "M">>>>
IT_ONE   == <<<<"O", "R", "I", "G">>>>

Without(d, tags) == Restrict(d, DOMAIN d \ tags)

D_FULL   == DictSet(DictSet(FullDataset(UID_SPEC, <<"4", "7", "1", "1">>),
                            "ImageType", IT_THREE),
                    "InstanceNumber", <<"7">>)
D_ONE    == Without(DictSet(DictSet(FullDataset(UID_SPEC, <<"4", "7", "1", "1">>),
                                    "ImageType", IT_ONE),
                            "InstanceNumber", <<"1", "2">>),
                    {"AccessionNumber"})
D_TWO    == DictSet(FullDataset(UID_ZEROS, <<"S", "N", "-", "1">>), "ImageType", IT_TWO)
D_LONG   == DictSet(FullDataset(UID_UUID, <<"4", "7", "1", "1">>), "ImageType", IT_THREE)
D_BARE   == Without(FullDataset(UID_ZEROS, <<"4", "7", "1", "1">>),
                    {"AccessionNumber", "StationName"})
D_NODATE == Without(D_FULL, {"StudyDate"})
\* Another image of the series of D_BARE.
D_SLICE  == DictSet(D_BARE, "SOPInstanceUID", <<"1", ".", "2", ".", "9">>)

\* A file that is there with one of the datasets, or is not there.
Optional(datasets) == {<<>>} \cup {<<d>> : d \in datasets}

DicomContent(dataset_) == [dicom |-> TRUE, dataset |-> dataset_]

\* The file system made of the files chosen; notes.txt is no DICOM file.
MakeFs(a, b, c, d, e) ==
    LET chosen == [p \in {P_a, P_b, P_c, P_d, P_e} |->
                      CASE p = P_a -> a [] p = P_b -> b [] p = P_c -> c
                        [] p = P_d -> d [] p = P_e -> e]
        there  == {p \in DOMAIN chosen : chosen[p] # <<>>}
    IN  [files |-> [p \in there \cup {P_notes} |->
                       IF p = P_notes THEN [dicom |-> FALSE, dataset |-> EmptyDict]
                       ELSE DicomContent(chosen[p][1])],
         dirs  |-> {Root, Root \o <<N_sub>>}
                   \cup (IF c # <<>> THEN {Root \o <<ANONYMIZED>>} ELSE {})]

DirFileSystems ==
    {MakeFs(a, b, c, d, e) :
        a \in Optional({D_FULL, D_ONE, D_TWO, D_BARE, D_NODATE}),
        b \in Optional({D_FULL}),
        c \in Optional({D_FULL}),
        d \in Optional({D_FULL, D_ONE, D_TWO, D_BARE, D_NODATE, D_SLICE}),
        e \in Optional({D_LONG, D_NODATE})}

\* No file system.
NoFs == [files |-> EmptyDict, dirs |-> {}]

\* The files DicomFile objects are constructed on: a.dcm, and IM1 and IM2,
\* which have no extension.  D_NEWYEAR is a study of the first of January.
N_im1 == <<"I", "M", "1">>
N_im2 == <<"I", "M", "2">>

D_NEWYEAR == DictSet(D_FULL, "StudyDate", <<"2", "0", "2", "4", "0", "1", "0", "1">>)

FileFileSystems ==
    {[files |-> [p \in {Root \o <<N_a>>, P_notes}
                        \cup (IF im1 # <<>> THEN {Root \o <<N_im1>>} ELSE {})
                        \cup (IF im2 # <<>> THEN {Root \o <<N_im2>>} ELSE {}) |->
                    IF p = P_notes THEN [dicom |-> FALSE, dataset |-> EmptyDict]
                    ELSE IF p = Root \o <<N_a>> THEN DicomContent(a)
                    ELSE IF p = Root \o <<N_im1>> THEN DicomContent(im1[1])
                    ELSE DicomContent(im2[1])],
      dirs  |-> {Root}] :
        a \in {D_FULL, D_NEWYEAR, D_NODATE},
        im1 \in Optional({D_ONE}),
        im2 \in Optional({D_TWO})}

\* The constructions and the calls of anonymize a run of SpecFile makes.
MaxOpens == 3

MaxCalls == 2

\* No call of DicomFile.anonymize yet.
NoFileOutcome == FileOutcome("", FALSE, NoFs, <<>>)

(***************************************************************************)
(* The constructors PubmedData(file_path, dir_path) (pubmed/data.py) and   *)
(* DicomData(file_path, dir_path) (dicom/data.py).  An argument is None or *)
(* <<x>> for the path x; a PubMed file or directory stands for its path.   *)
(***************************************************************************)
None == <<>>

\* A variant of the choice of the source that looks at dir_path first.
Source_DirFirst(file_path, dir_path) ==
    IF dir_path # None THEN "dir"
    ELSE IF file_path # None THEN "file"
    ELSE "none"

\* pubmed/data.py lines 79-88 and dicom/data.py lines 40-49: what the
\* constructor loads.
Source(file_path, dir_path) ==
    IF file_path # None THEN "file"
    ELSE IF dir_path # None THEN "dir"
    ELSE "none"

\* What a constructor ends with: the exception raised ("" for none), the
\* files and directories it read, in order, the data of the object and the
\* file system it leaves.
Constructed(raised_, reads, data, fs_) ==
    [raised |-> raised_, reads |-> reads, data |-> data, fs |-> fs_]

\* PubmedData._get_dir_data, lines 201-207: the sum of the files from the
\* first to the i-th.
RECURSIVE DirData(_, _)
DirData(fl, i) ==
    IF i = 1 THEN PubmedDataOfFile(fl[1])
    ELSE Add(DirData(fl, i - 1), PubmedDataOfFile(fl[i]))

\* PubmedData.__init__, lines 73-94.  A directory is the list of its files;
\* a file is its lines.
PubmedDataNew(file_path, dir_path) ==
    LET source == Source(file_path, dir_path)
    IN  IF source = "none"
        THEN Constructed("FileNotFoundError", <<>>, NoData, NoFs)
        ELSE IF source = "file"
        THEN LET f == file_path[1]
             IN  IF ~test_file(f)
                 THEN Constructed("FileNotFoundError", <<<<"file", f>>>>, NoData, NoFs)
                 ELSE IF PubmedFile(f).raised # ""
                 THEN Constructed(PubmedFile(f).raised, <<<<"file", f>>>>, NoData, NoFs)
                 ELSE Constructed("", <<<<"file", f>>>>, PubmedDataOfFile(f), NoFs)
        ELSE LET fl    == SelectSeq(dir_path[1], test_file)
                 reads == <<<<"dir", dir_path[1]>>>> \o [i \in 1..Len(fl) |-> <<"file", fl[i]>>]
             IN  IF fl = <<>>
                 THEN Constructed("AttributeError", reads, NoData, NoFs)
                 ELSE IF \E i \in 1..Len(fl) : PubmedFile(fl[i]).raised # ""
                 THEN Constructed("KeyError", reads, NoData, NoFs)
                 ELSE Constructed("", reads, CleanUp(DirData(fl, Len(fl))), NoFs)

\* DicomData._get_file_data, lines 61-72; pixel_array raises when the
\* dataset holds no PixelData.
DicomFileData(fs_, file_path) ==
    IF ~DicomFile_test_file(fs_, file_path)
    THEN Constructed("FileNotFoundError", <<<<"file", file_path>>>>, EmptyDict, fs_)
    ELSE LET dataset_ == fs_.files[file_path].dataset
         IN  IF "PixelData" \notin DOMAIN dataset_
             THEN Constructed("AttributeError", <<<<"file", file_path>>>>, EmptyDict, fs_)
             ELSE Constructed("", <<<<"file", file_path>>>>,
                              [dataset   |-> dataset_,
                               data      |-> dataset_["PixelData"],
                               file_dir  |-> DirName(file_path),
                               file_list |-> <<file_path[Len(file_path)]>>],
                              fs_)

\* DicomData.__init__, lines 39-49, and _get_dir_data, lines 84-92: the
\* list tmp_data becomes None with the first append, so the append for a
\* second file raises AttributeError before that file is read.
DicomDataNew(fs_, file_path, dir_path, names) ==
    LET source == Source(file_path, dir_path)
    IN  IF source = "none"
        THEN Constructed("FileNotFoundError", <<>>, EmptyDict, fs_)
        ELSE IF source = "file" THEN DicomFileData(fs_, file_path[1])
        ELSE IF ~test_dir(fs_, dir_path[1], TRUE)
        THEN Constructed("FileNotFoundError", <<<<"dir", dir_path[1]>>>>, EmptyDict, fs_)
        ELSE LET tmp_dir == DicomDirInit(fs_, dir_path[1], names)
                 first   == DicomFileData(tmp_dir.fs, tmp_dir.file_list[1])
                 reads   == <<<<"dir", dir_path[1]>>>>
                 data    == [file_dir |-> dir_path[1], file_list |-> tmp_dir.file_list]
             IN  IF tmp_dir.raised # ""
                 THEN Constructed(tmp_dir.raised, reads, EmptyDict, tmp_dir.fs)
                 ELSE IF first.raised # ""
                 THEN Constructed(first.raised, reads \o first.reads, data, tmp_dir.fs)
                 ELSE IF Len(tmp_dir.file_list) > 1
                 THEN Constructed("AttributeError", reads \o first.reads, data, tmp_dir.fs)
                 ELSE Constructed("", reads \o first.reads, data, tmp_dir.fs)

\* The arguments of the constructors.
PubmedFilePaths == {None} \cup {<<f>> : f \in MergeFiles}

PubmedDirPaths ==
    {None} \cup {<<fl>> : fl \in UNION {SeqsOfLen(MergeFiles, n) : n \in 0..MaxDirFiles}}

D_PIXELS == DictSet(D_FULL, "PixelData", <<"0", "1">>)

DataFileSystems ==
    {MakeFs(a, b, <<>>, d, <<>>) :
        a \in Optional({D_PIXELS, D_FULL}),
        b \in Optional({D_PIXELS}),
        d \in Optional({D_PIXELS})}

DicomFilePaths == {None, <<P_a>>, <<P_b>>, <<P_notes>>}

DicomDirPaths == {None, <<Root>>, <<Root \o <<N_sub>>>>}

\* new_dir_path: None, the directory of the files, or a directory that
\* does not exist.
OutputDirs == {None, <<Root>>, <<Root \o <<ANONYMIZED>>>>}

\* No constructor is called.
NoCall ==
    [class |-> "", file_path |-> None, dir_path |-> None, pc |-> "idle",
     made |-> Constructed("", <<>>, EmptyDict, NoFs)]

(***************************************************************************)
(* State.                                                                  *)
(***************************************************************************)
VARIABLES
    \* PubmedFile(file_path): one parse
    file,        \* the PubMed file being parsed: its raw lines
    pos,         \* the index of the line the loop reads next (or raised on)
    pc,          \* "read" in the loop, "done" after __init__, "raised"
    parser,      \* the parser's tables and locals (see ParserStart)
    \* PubmedData(dir_path) and the sums of PubmedData
    file_list,   \* GenericDir.file_list: the files of the directory
    dir_pc,      \* "start", "loop", "done": where _get_dir_data stands
    dir_idx,     \* the index in file_list of the next file to be added
    tmp_data,    \* _get_dir_data's tmp_data
    dir_data,    \* the tables of the PubmedData loaded from the directory
    ops,         \* the operands A, B, C: PubmedData objects
    sums,        \* the sums formed from the operands (NoData until formed)
    formed,      \* the names of the sums formed so far
    reused,      \* whether a sum has replaced operand A
    \* DicomFile._anonymize_dataset
    dataset,     \* DicomFile.dataset: the source record
    today,       \* datetime.today() during the call
    node,        \* platform.node() during the call
    anon_pc,     \* "start", then "done" or "raised", then "done_again"
                 \* or "raised_again"
    anon,        \* the outcome of _anonymize_dataset (see Outcome)
    again,       \* the outcome of _anonymize_dataset on the dataset of anon
    \* DicomDir(dir_path) and DicomDir.anonymize
    fs,          \* the file system: [files, dirs]
    ddir,        \* the DicomDir and where its anonymize stands (see NoDicomDir)
    out_ok,      \* whether <dir_path>/anonymized can be read and written
    \* PubmedData(file_path, dir_path) and DicomData(file_path, dir_path)
    ctor,        \* the call of a constructor and what it made (see NoCall)
    \* DicomFile(file_path) and DicomFile.anonymize
    dfile        \* the DicomFile and the calls made on it (see NoDicomFile)

parseVars == <<file, pos, pc, parser>>

mergeVars == <<file_list, dir_pc, dir_idx, tmp_data, dir_data, ops, sums, formed, reused>>

anonVars == <<dataset, today, node, anon_pc, anon, again>>

dirVars == <<fs, ddir, out_ok>>

vars == <<parseVars, mergeVars, anonVars, dirVars, ctor, dfile>>

(***************************************************************************)
(* Specification Spec: parsing one file.                                   *)
(***************************************************************************)
ParseInit ==
    /\ file \in ParsedFiles
    /\ pos = 1
    /\ pc = "read"
    /\ parser = ParserStart

\* No file is being parsed.
ParseIdle ==
    /\ file = <<>>
    /\ pos = 1
    /\ pc = "idle"
    /\ parser = ParserStart

\* No directory is loaded and nothing is summed.
MergeIdle ==
    /\ file_list = <<>>
    /\ dir_pc = "idle"
    /\ dir_idx = 1
    /\ tmp_data = NoData
    /\ dir_data = NoData
    /\ ops = [n \in {"A", "B", "C"} |-> NoData]
    /\ sums = [n \in SumNames |-> NoData]
    /\ formed = {}
    /\ reused = FALSE

\* No dataset is being anonymized.
AnonIdle ==
    /\ dataset = EmptyDict
    /\ today = [Ymd |-> <<>>, ymd |-> <<>>]
    /\ node = <<>>
    /\ anon_pc = "idle"
    /\ anon = NoOutcome
    /\ again = NoOutcome

\* The DicomDir before its construction:
\*   pc        : "new", "built" once constructed ("unbuilt" when the
\*               construction raised), then "loop" while anonymize runs and
\*               "true", "false" or "raised" as it ends, then "rebuilt" or
\*               "unbuilt_again" once constructed again
\*   names     : the order in which os.listdir gives names
\*   listed    : file_list as GenericDir.__init__ set it
\*   file_list, dicom_df : the attributes of the DicomDir
\*   idx       : the index in file_list of the next file of the loop
\*   log       : the files opened and the paths saved, in order
\*   last      : the outcome of the latest DicomFile.anonymize
NoDicomDir ==
    [pc |-> "new", names |-> <<>>, listed |-> <<>>,
     file_list |-> <<>>, dicom_df |-> <<>>,
     idx |-> 1, log |-> <<>>, last |-> NoFileOutcome]

\* No directory is handled.
DirIdle ==
    /\ fs = NoFs
    /\ ddir = [NoDicomDir EXCEPT !.pc = "idle"]
    /\ out_ok = TRUE

\* No constructor is called.
CtorIdle == ctor = NoCall

\* The DicomFile before it is constructed:
\*   pc      : "none", "open" once constructed
\*   self    : the object (see DicomFileNew)
\*   opened  : the dataset the file held when the object was constructed
\*   opens   : the number of constructions so far
\*   calls   : the number of calls of anonymize on the object
\*   arg     : new_dir_path of the latest call
\*   last    : the outcome of the latest call
NoDicomFile ==
    [pc |-> "none", self |-> EmptyDict, opened |-> EmptyDict,
     opens |-> 0, calls |-> 0, arg |-> None, last |-> NoFileOutcome]

\* No DicomFile is handled.
FileIdle == dfile = [NoDicomFile EXCEPT !.pc = "idle"]

Init == ParseInit /\ MergeIdle /\ AnonIdle /\ DirIdle /\ CtorIdle /\ FileIdle

\* One iteration of `for line in file` (lines 82-138).
ReadNextLine ==
    /\ pc = "read"
    /\ pos <= Len(file)
    /\ LET st == ReadLine(parser, file[pos])
       IN  /\ parser' = st
           /\ pc' = IF st.raised # "" THEN "raised" ELSE "read"
           \* pos stays on the line whose handling raised
           /\ pos' = IF st.raised # "" THEN pos ELSE pos + 1
    /\ UNCHANGED <<file, mergeVars, anonVars, dirVars, ctor, dfile>>

\* The end of the loop and the two final flushes (lines 140-154).
FinishFile ==
    /\ pc = "read"
    /\ pos > Len(file)
    /\ LET st == EndOfFile(parser)
       IN  /\ parser' = st
           /\ pc' = IF st.raised # "" THEN "raised" ELSE "done"
    /\ UNCHANGED <<file, pos, mergeVars, anonVars, dirVars, ctor, dfile>>

Next == ReadNextLine \/ FinishFile

Spec == Init /\ [][Next]_vars

(***************************************************************************)
(* Specification SpecMerge: a directory of files is loaded into one        *)
(* PubmedData, and the PubmedData of its files are summed.  The sums do    *)
(* not depend on the loading, so they are explored once it has ended.      *)
(***************************************************************************)
\* The operands are the PubmedData of the files of the directory, taken in
\* turn.
FileOfOperand(fl, k) == fl[((k - 1) % Len(fl)) + 1]

MergeInit ==
    /\ file_list \in UNION {SeqsOfLen(MergeFiles, n) : n \in 1..MaxDirFiles}
    /\ dir_pc = "start"
    /\ dir_idx = 1
    /\ tmp_data = NoData
    /\ dir_data = NoData
    /\ ops = [n \in {"A", "B", "C"} |->
                PubmedDataOfFile(FileOfOperand(file_list,
                    CASE n = "A" -> 1 [] n = "B" -> 2 [] n = "C" -> 3))]
    /\ sums = [n \in SumNames |-> NoData]
    /\ formed = {}
    /\ reused = FALSE

InitMerge == ParseIdle /\ MergeInit /\ AnonIdle /\ DirIdle /\ CtorIdle /\ FileIdle

\* _get_dir_data, lines 201-203: the first file of the list is loaded.
DirLoadFirst ==
    /\ dir_pc = "start"
    /\ Len(file_list) > 0
    /\ tmp_data' = PubmedDataOfFile(file_list[1])
    /\ dir_idx' = 2
    /\ dir_pc' = "loop"
    /\ UNCHANGED <<file_list, dir_data, ops, sums, formed, reused, parseVars, anonVars, dirVars, ctor, dfile>>

\* _get_dir_data, lines 205-207: tmp_data += PubmedData(file_path=...).
DirLoadNext ==
    /\ dir_pc = "loop"
    /\ dir_idx <= Len(file_list)
    /\ tmp_data' = Add(tmp_data, PubmedDataOfFile(file_list[dir_idx]))
    /\ dir_idx' = dir_idx + 1
    /\ UNCHANGED <<file_list, dir_pc, dir_data, ops, sums, formed, reused, parseVars, anonVars, dirVars, ctor, dfile>>

\* _get_dir_data, lines 209-212, and the clean-up of __init__, lines 90-94.
DirLoadFinish ==
    /\ dir_pc = "loop"
    /\ dir_idx > Len(file_list)
    /\ dir_data' = CleanUp(tmp_data)
    /\ dir_pc' = "done"
    /\ UNCHANGED <<file_list, dir_idx, tmp_data, ops, sums, formed, reused, parseVars, anonVars, dirVars, ctor, dfile>>

\* The operands of the sum named n, and what it needs to have been formed.
Needs(n) ==
    CASE n = "AB_C" -> {"AB"} [] n = "A_BC" -> {"BC"} [] OTHER -> {}

LeftOf(n) ==
    CASE n = "AA" -> ops["A"] [] n = "AB" -> ops["A"] [] n = "BA" -> ops["B"]
      [] n = "BC" -> ops["B"] [] n = "AB_C" -> sums["AB"] [] n = "A_BC" -> ops["A"]

RightOf(n) ==
    CASE n = "AA" -> ops["A"] [] n = "AB" -> ops["B"] [] n = "BA" -> ops["A"]
      [] n = "BC" -> ops["C"] [] n = "AB_C" -> ops["C"] [] n = "A_BC" -> sums["BC"]

\* left + right (PubmedData.__add__).
Merge(n) ==
    /\ dir_pc = "done"
    /\ n \notin formed
    /\ Needs(n) \subseteq formed
    /\ sums' = [sums EXCEPT ![n] = Add(LeftOf(n), RightOf(n))]
    /\ formed' = formed \cup {n}
    /\ UNCHANGED <<file_list, dir_pc, dir_idx, tmp_data, dir_data, ops, reused, parseVars, anonVars, dirVars, ctor, dfile>>

\* A sum goes on as operand A of further sums.
Reuse(n) ==
    /\ dir_pc = "done"
    /\ ~reused
    /\ n \in formed
    /\ ops' = [ops EXCEPT !["A"] = sums[n]]
    /\ sums' = [m \in SumNames |-> NoData]
    /\ formed' = {}
    /\ reused' = TRUE
    /\ UNCHANGED <<file_list, dir_pc, dir_idx, tmp_data, dir_data, parseVars, anonVars, dirVars, ctor, dfile>>

NextMerge ==
    \/ DirLoadFirst
    \/ DirLoadNext
    \/ DirLoadFinish
    \/ \E n \in SumNames : Merge(n)
    \/ \E n \in SumNames : Reuse(n)

SpecMerge == InitMerge /\ [][NextMerge]_vars

(***************************************************************************)
(* Specification SpecAnon: one dataset is anonymized.                      *)
(***************************************************************************)
AnonInit ==
    /\ dataset \in SourceDatasets
    /\ today \in Todays
    /\ node \in Nodes
    /\ anon_pc = "start"
    /\ anon = NoOutcome
    /\ again = NoOutcome

InitAnon == ParseIdle /\ MergeIdle /\ AnonInit /\ DirIdle /\ CtorIdle /\ FileIdle

\* _anonymize_dataset returns (True, dataset).
AnonymizeReturns ==
    /\ anon_pc = "start"
    /\ \E out \in {AnonymizeDataset(dataset, today.Ymd, today.ymd, node)} :
           /\ out.raised = ""
           /\ anon' = out
    /\ anon_pc' = "done"
    /\ UNCHANGED <<dataset, today, node, again, parseVars, mergeVars, dirVars, ctor, dfile>>

\* _anonymize_dataset raises: a tag it reads is absent.
AnonymizeRaises ==
    /\ anon_pc = "start"
    /\ \E out \in {AnonymizeDataset(dataset, today.Ymd, today.ymd, node)} :
           /\ out.raised # ""
           /\ anon' = out
    /\ anon_pc' = "raised"
    /\ UNCHANGED <<dataset, today, node, again, parseVars, mergeVars, dirVars, ctor, dfile>>

\* _anonymize_dataset is run on the dataset a first run returned, on a day
\* and a host of its own.
AnonymizeAgain ==
    /\ anon_pc = "done"
    /\ \E t \in Todays, n \in Nodes :
           \E out \in {AnonymizeDataset(anon.dataset, t.Ymd, t.ymd, n)} :
               /\ again' = out
               /\ anon_pc' = IF out.raised = "" THEN "done_again" ELSE "raised_again"
    /\ UNCHANGED <<dataset, today, node, anon, parseVars, mergeVars, dirVars, ctor, dfile>>

NextAnon == AnonymizeReturns \/ AnonymizeRaises \/ AnonymizeAgain

SpecAnon == InitAnon /\ [][NextAnon]_vars

(***************************************************************************)
(* Specification SpecDicomDir: a DicomDir is constructed on a directory    *)
(* and its files are anonymized.                                           *)
(***************************************************************************)
DicomDirStart ==
    /\ fs \in DirFileSystems
    /\ \E names \in ListingOrders : ddir = [NoDicomDir EXCEPT !.names = names]
    /\ out_ok = TRUE

\* The day and the host of the run.
DirAnonInit ==
    /\ dataset = EmptyDict
    /\ today \in Todays
    /\ node \in Nodes
    /\ anon_pc = "idle"
    /\ anon = NoOutcome
    /\ again = NoOutcome

InitDicomDir == ParseIdle /\ MergeIdle /\ DirAnonInit /\ DicomDirStart /\ CtorIdle /\ FileIdle

\* DicomDir(dir_path), lines 393-419.
ConstructDicomDir ==
    /\ ddir.pc = "new"
    /\ \E built \in {DicomDirInit(fs, Root, ddir.names)} :
           /\ fs' = built.fs
           /\ ddir' = [ddir EXCEPT !.pc = IF built.raised # "" THEN "unbuilt" ELSE "built",
                                   !.listed = built.listed,
                                   !.file_list = built.file_list,
                                   !.dicom_df = built.dicom_df]
    /\ UNCHANGED <<out_ok, parseVars, mergeVars, anonVars, ctor, dfile>>

\* DicomDir.anonymize, lines 431-435: the output directory is made.
StartAnonymize ==
    /\ ddir.pc = "built"
    /\ LET new_path == Root \o <<ANONYMIZED>>
       IN  fs' = IF IsDir(fs, new_path) \/ IsFile(fs, new_path) THEN fs
                 ELSE MakeDirs(fs, new_path)
    /\ ddir' = [ddir EXCEPT !.pc = "loop", !.idx = 1]
    /\ UNCHANGED <<out_ok, parseVars, mergeVars, anonVars, ctor, dfile>>

\* DicomDir.anonymize, lines 438-441: one file of file_list.
AnonymizeNextFile ==
    /\ ddir.pc = "loop"
    /\ ddir.idx <= Len(ddir.file_list)
    /\ LET file_path == ddir.file_list[ddir.idx]
       IN  \E outcome \in {DicomFileAnonymize(fs, file_path, Root \o <<ANONYMIZED>>,
                                              out_ok, today, node)} :
           /\ fs' = outcome.fs
           /\ ddir' = [ddir EXCEPT
                  !.pc = AfterFile(outcome),
                  !.idx = @ + 1,
                  !.last = [outcome EXCEPT !.fs = NoFs],
                  !.log = @ \o <<<<"open", file_path>>>>
                            \o (IF outcome.saved # <<>>
                                THEN <<<<"save", outcome.saved>>>> ELSE <<>>)]
    /\ UNCHANGED <<out_ok, parseVars, mergeVars, anonVars, ctor, dfile>>

\* DicomDir.anonymize, lines 442-443: the end of the loop.
FinishAnonymize ==
    /\ ddir.pc = "loop"
    /\ ddir.idx > Len(ddir.file_list)
    /\ ddir' = [ddir EXCEPT !.pc = "true"]
    /\ UNCHANGED <<fs, out_ok, parseVars, mergeVars, anonVars, ctor, dfile>>

\* DicomDir(dir_path) once more, lines 393-419, on the directory as
\* anonymize left it.
ReconstructDicomDir ==
    /\ ddir.pc \in {"true", "false", "raised"}
    /\ \E built \in {DicomDirInit(fs, Root, ddir.names)} :
           /\ fs' = built.fs
           /\ ddir' = [ddir EXCEPT !.pc = IF built.raised # "" THEN "unbuilt_again"
                                          ELSE "rebuilt",
                                   !.listed = built.listed,
                                   !.file_list = built.file_list,
                                   !.dicom_df = built.dicom_df]
    /\ UNCHANGED <<out_ok, parseVars, mergeVars, anonVars, ctor, dfile>>

\* The environment: the output directory stops being writable.
OutputDirLocked ==
    /\ ddir.pc = "loop"
    /\ out_ok
    /\ out_ok' = FALSE
    /\ UNCHANGED <<fs, ddir, parseVars, mergeVars, anonVars, ctor, dfile>>

NextDicomDir ==
    \/ ConstructDicomDir
    \/ StartAnonymize
    \/ AnonymizeNextFile
    \/ FinishAnonymize
    \/ ReconstructDicomDir
    \/ OutputDirLocked

SpecDicomDir == InitDicomDir /\ [][NextDicomDir]_vars

(***************************************************************************)
(* Specification SpecData: a PubmedData or a DicomData is constructed.     *)
(***************************************************************************)
\* A call of PubmedData(file_path, dir_path), or of
\* DicomData(file_path, dir_path) on a file system.
DataInit ==
    /\ \/ /\ fs = NoFs
          /\ ddir = [NoDicomDir EXCEPT !.pc = "idle"]
          /\ \E fp \in PubmedFilePaths, dp \in PubmedDirPaths :
                 ctor = [NoCall EXCEPT !.class = "PubmedData", !.file_path = fp,
                                       !.dir_path = dp, !.pc = "call"]
       \/ /\ fs \in DataFileSystems
          /\ \E names \in ListingOrders :
                 ddir = [NoDicomDir EXCEPT !.pc = "idle", !.names = names]
          /\ \E fp \in DicomFilePaths, dp \in DicomDirPaths :
                 ctor = [NoCall EXCEPT !.class = "DicomData", !.file_path = fp,
                                       !.dir_path = dp, !.pc = "call"]
    /\ out_ok = TRUE

InitData == ParseIdle /\ MergeIdle /\ AnonIdle /\ DataInit /\ FileIdle

\* PubmedData.__init__
ConstructPubmedData ==
    /\ ctor.pc = "call"
    /\ ctor.class = "PubmedData"
    /\ \E made \in {PubmedDataNew(ctor.file_path, ctor.dir_path)} :
           ctor' = [ctor EXCEPT !.made = made,
                                !.pc = IF made.raised = "" THEN "done" ELSE "raised"]
    /\ UNCHANGED <<fs, ddir, out_ok, parseVars, mergeVars, anonVars, dfile>>

\* DicomData.__init__
ConstructDicomData ==
    /\ ctor.pc = "call"
    /\ ctor.class = "DicomData"
    /\ \E made \in {DicomDataNew(fs, ctor.file_path, ctor.dir_path, ddir.names)} :
           /\ ctor' = [ctor EXCEPT !.made = [made EXCEPT !.fs = NoFs],
                                   !.pc = IF made.raised = "" THEN "done" ELSE "raised"]
           /\ fs' = made.fs
    /\ UNCHANGED <<ddir, out_ok, parseVars, mergeVars, anonVars, dfile>>

NextData == ConstructPubmedData \/ ConstructDicomData

SpecData == InitData /\ [][NextData]_vars

(***************************************************************************)
(* Specification SpecFile: DicomFile objects are constructed on the files  *)
(* of a directory, the files that anonymize wrote included, and anonymize  *)
(* is called on them, with and without an output directory.                *)
(***************************************************************************)
InitFile ==
    /\ ParseIdle /\ MergeIdle /\ DirAnonInit /\ CtorIdle
    /\ fs \in FileFileSystems
    /\ ddir = [NoDicomDir EXCEPT !.pc = "idle"]
    /\ out_ok = TRUE
    /\ dfile = NoDicomFile

\* DicomFile(file_path), on a file of the file system.
OpenDicomFile ==
    /\ dfile.pc \in {"none", "open"}
    /\ dfile.opens < MaxOpens
    /\ \E file_path \in DOMAIN fs.files :
           \E made \in {DicomFileNew(fs, file_path)} :
               dfile' = IF made.raised # ""
                        THEN [NoDicomFile EXCEPT !.opens = dfile.opens + 1]
                        ELSE [NoDicomFile EXCEPT !.pc = "open",
                                                 !.self = made.self,
                                                 !.opened = made.self.dataset,
                                                 !.opens = dfile.opens + 1]
    /\ UNCHANGED <<fs, ddir, out_ok, parseVars, mergeVars, anonVars, ctor>>

\* dicom_file.anonymize(new_dir_path), lines 182-210.
AnonymizeFile ==
    /\ dfile.pc = "open"
    /\ dfile.calls < MaxCalls
    /\ \E new_dir_path \in OutputDirs :
           \E outcome \in {anonymize(dfile.self, fs, new_dir_path, out_ok, today, node)} :
               /\ fs' = outcome.fs
               /\ dfile' = [dfile EXCEPT !.calls = @ + 1,
                                         !.arg = new_dir_path,
                                         !.last = [outcome EXCEPT !.fs = NoFs]]
    /\ UNCHANGED <<ddir, out_ok, parseVars, mergeVars, anonVars, ctor>>

NextFile == OpenDicomFile \/ AnonymizeFile

SpecFile == InitFile /\ [][NextFile]_vars

(***************************************************************************)
(* Reading a file as the NLM export convention describes it: a line is a   *)
(* 4-character tag field, the separator "- " and the value.  These         *)
(* definitions read the input only; they do not use the parser.            *)
(***************************************************************************)
TagField(raw) == SubSeq(raw, 1, Min(4, Len(raw)))

IsPmidLine(raw) == TagField(raw) = <<"P", "M", "I", "D">>

IsFauLine(raw) == TagField(raw) = <<"F", "A", "U", " ">>

IsMhLine(raw) == TagField(raw) = <<"M", "H", " ", " ">>

IsTiLine(raw) == TagField(raw) = <<"T", "I", " ", " ">>

IsAbLine(raw) == TagField(raw) = <<"A", "B", " ", " ">>

\* The value of a tagged line: what follows "TAG - " up to the end of line.
LineText(raw) == SubSeq(raw, 7, Len(raw) - 1)

\* The indices, up to n, of the lines of f that satisfy the predicate P.
IndicesUpTo(f, n, P(_)) == {i \in 1..Min(n, Len(f)) : P(f[i])}

\* The index of the PMID line that opened the article to which line i belongs.
OpenIndexAt(f, i) ==
    CHOOSE j \in IndicesUpTo(f, i - 1, IsPmidLine) :
        \A k \in IndicesUpTo(f, i - 1, IsPmidLine) : k <= j

\* The PMID of the article that is open when line i is read.
OpenPmidAt(f, i) == LineText(f[OpenIndexAt(f, i)])

\* The last line of the article that the PMID line b opens.
BlockEnd(f, b) ==
    IF \E j \in (b + 1)..Len(f) : IsPmidLine(f[j])
    THEN (CHOOSE j \in (b + 1)..Len(f) :
              IsPmidLine(f[j]) /\ \A k \in (b + 1)..(j - 1) : ~IsPmidLine(f[k])) - 1
    ELSE Len(f)

\* The n-th smallest element of a set of numbers.
NthOf(S, n) == CHOOSE i \in S : Cardinality({j \in S : j <= i}) = n

HasUpper(v) == \E i \in 1..Len(v) : \E u \in 1..Len(UpperCase) : v[i] = UpperCase[u]

\* A value is lower-cased and trimmed.
IsLowerTrimmed(v) ==
    /\ ~HasUpper(v)
    /\ v # <<>> => (v[1] \notin Whitespace /\ v[Len(v)] \notin Whitespace)

IsPrefixOf(p, v) == Len(p) <= Len(v) /\ SubSeq(v, 1, Len(p)) = p

(***************************************************************************)
(* Claims about the parser (specification Spec).                           *)
(***************************************************************************)
\* C1: in a parse result, the author record of every FAU line carries the
\* PMID of the article that was open when that FAU line was read, the last
\* author of an article followed by another article included.
C1_AuthorCarriesOpenPmid ==
    pc = "done" =>
        \A i \in IndicesUpTo(file, Len(file), IsFauLine) :
            LET k == Cardinality(IndicesUpTo(file, i, IsFauLine))
            IN  /\ k <= Len(parser.authors)
                /\ parser.authors[k][T_PMID] = OpenPmidAt(file, i)

\* C2: after parsing, the article table has one row per PMID line, in the
\* order of those lines.
C2_OneArticlePerPmidLine ==
    pc = "done" =>
        LET P == IndicesUpTo(file, Len(file), IsPmidLine)
        IN  /\ Len(parser.articles) = Cardinality(P)
            /\ \A k \in 1..Cardinality(P) :
                   parser.articles[k][T_PMID] = LineText(file[NthOf(P, k)])

C2_Witness ==
    /\ pc = "done"
    /\ Len(parser.articles) >= 2
    /\ parser.articles[1][T_PMID] # parser.articles[2][T_PMID]

\* C3: once the lines before pos are read, the keyword table holds exactly
\* one row per MH line among them, in their order, each with the PMID of
\* the most recent PMID line before it; reading an MH line never raises.
C3_KeywordPerMhLine ==
    LET M == IndicesUpTo(file, pos - 1, IsMhLine)
    IN  /\ Len(parser.keywords) = Cardinality(M)
        /\ \A k \in 1..Cardinality(M) :
               /\ parser.keywords[k][T_PMID] = OpenPmidAt(file, NthOf(M, k))
               /\ DOMAIN parser.keywords[k] = TAGS_KEYWORD
        /\ (pc = "raised" /\ pos <= Len(file)) => ~IsMhLine(file[pos])

C3_Witness ==
    /\ pc = "read"
    /\ Len(parser.keywords) >= 2
    /\ parser.keywords[1][T_PMID] # parser.keywords[2][T_PMID]
    /\ IsMhLine(file[pos - 1])

\* What the article record of the block opened by PMID line b must hold, as
\* far as the input alone tells: its PMID, its title, and whether it has an
\* abstract.
FlushedAsCollected(row, f, b) ==
    LET e  == BlockEnd(f, b)
        TI == {i \in b..e : IsTiLine(f[i])}
        AB == {i \in b..e : IsAbLine(f[i])}
    IN  /\ DOMAIN row = TAGS_ARTICLE
        /\ row[T_PMID] = LineText(f[b])
        /\ row[T_TI] = IF TI = {} THEN NaN
                       ELSE Strip(Lower(LineText(f[NthOf(TI, Cardinality(TI))])))
        /\ IF AB = {} THEN row[T_AB] = NaN
           ELSE /\ row[T_AB] # NaN
                /\ IsPrefixOf(Strip(Lower(LineText(f[NthOf(AB, Cardinality(AB))]))),
                              row[T_AB])
        /\ \A c \in TAGS_ARTICLE \ {T_PMID} : row[c] # NaN => IsLowerTrimmed(row[c])

\* The scenario of the specification: PMID- 123456, TI  - Some Title, PMID- 234567.
ScenarioRead ==
    /\ pc = "read"
    /\ pos = 4
    /\ SubSeq(file, 1, 3) = <<L_PMID1, L_TI, L_PMID2>>

ScenarioRow ==
    [c \in TAGS_ARTICLE |->
        IF c = T_PMID THEN <<"1", "2", "3", "4", "5", "6">>
        ELSE IF c = T_TI THEN <<"s", "o", "m", "e", " ", "t", "i", "t", "l", "e">>
        ELSE NaN]

\* C4: right after a PMID line is read, every earlier article is in the
\* table as it was collected (the one just closed included), and the
\* accumulator holds nothing but the new PMID; the first PMID line flushes
\* nothing; in the scenario the table is {123456, 'some title'}.
C4_FlushBeforeNewArticle ==
    /\ (pc = "read" /\ pos > 1 /\ IsPmidLine(file[pos - 1])) =>
           LET P == IndicesUpTo(file, pos - 1, IsPmidLine)
           IN  /\ Len(parser.articles) = Cardinality(P) - 1
               /\ \A k \in 1..(Cardinality(P) - 1) :
                      FlushedAsCollected(parser.articles[k], file, NthOf(P, k))
               /\ DOMAIN parser.pmid = {T_PMID}
               /\ parser.pmid[T_PMID] = LineText(file[pos - 1])
    /\ ScenarioRead =>
           /\ parser.articles = <<ScenarioRow>>
           /\ parser.pmid[T_PMID] = <<"2", "3", "4", "5", "6", "7">>

C4_Witness == ScenarioRead /\ Len(parser.articles) = 1

(***************************************************************************)
(* Claims about PubmedData and its sums (specification SpecMerge).         *)
(***************************************************************************)
TableNames == {"articles", "authors", "keywords"}

\* The rows of a table, as a set.
Rows(table) == {table[i] : i \in 1..Len(table)}

\* The rows of a table at the indices I, in the order of the table.
Pick(table, I) == [k \in 1..Cardinality(I) |-> table[NthOf(I, k)]]

\* The indices of the rows of a table that equal no earlier row of it.
FirstIndices(table) ==
    {i \in 1..Len(table) : \A j \in 1..(i - 1) : table[j] # table[i]}

\* The indices of the rows of b that equal no row of a and no earlier row of b.
NewIndices(a, b) == {i \in FirstIndices(b) : b[i] \notin Rows(a)}

\* Every author row and keyword row carries the PMID of an article row.
ReferencesResolve(d) ==
    \A r \in Rows(d.authors) \cup Rows(d.keywords) :
        \E a \in Rows(d.articles) : a[T_PMID] = r[T_PMID]

\* C5: in every parse result and in every PubmedData obtained from parse
\* results by merges, each author row and keyword row has the PMID of an
\* article row of the same object.
C5_ReferencesResolve ==
    /\ \A i \in 1..Len(file_list) : ReferencesResolve(FileData(file_list[i]))
    /\ \A n \in DOMAIN ops : ReferencesResolve(ops[n])
    /\ \A n \in formed : ReferencesResolve(sums[n])
    /\ ReferencesResolve(tmp_data)
    /\ ReferencesResolve(dir_data)

C5_Witness ==
    /\ reused
    /\ "AB_C" \in formed
    /\ Cardinality({r[T_PMID] : r \in Rows(sums["AB_C"].authors)}) >= 2
    /\ Len(sums["AB_C"].keywords) >= 2

\* C6, as claimed: A + A has the tables of A, also when a table of A holds
\* two equal rows.
C6_SelfSumIsSelf ==
    "AA" \in formed => sums["AA"] = ops["A"]

\* C6, amended: each table of A + A is the table of A without the rows that
\* equal an earlier row of it; so A + A has the tables of A when no table of
\* A holds two equal rows.
C6_SelfSumIsSelfDeduplicated ==
    "AA" \in formed =>
        /\ \A t \in TableNames :
               sums["AA"][t] = Pick(ops["A"][t], FirstIndices(ops["A"][t]))
        /\ (\A t \in TableNames : FirstIndices(ops["A"][t]) = 1..Len(ops["A"][t]))
               => sums["AA"] = ops["A"]

C6_Witness ==
    /\ "AA" \in formed
    /\ Len(sums["AA"].keywords) < Len(ops["A"].keywords)
    /\ sums["AA"].articles = ops["A"].articles

\* C7, as claimed: each table of a sum is all rows of the left table, in
\* order, followed by the rows of the right table that equal no earlier row
\* of the result, in order.
C7_LeftRowsThenNewRightRows ==
    \A n \in formed : \A t \in TableNames :
        sums[n][t] = LeftOf(n)[t] \o Pick(RightOf(n)[t], NewIndices(LeftOf(n)[t], RightOf(n)[t]))

\* C7, amended: each table of a sum is the rows of the left table that equal
\* no earlier row of it, in order, followed by the rows of the right table
\* that equal no row of the left table and no earlier row of the right
\* table, in order.
C7_FirstLeftRowsThenNewRightRows ==
    \A n \in formed : \A t \in TableNames :
        sums[n][t] = Pick(LeftOf(n)[t], FirstIndices(LeftOf(n)[t]))
                     \o Pick(RightOf(n)[t], NewIndices(LeftOf(n)[t], RightOf(n)[t]))

C7_Witness ==
    /\ "AB" \in formed
    /\ Len(sums["AB"].articles) > Len(ops["A"].articles)
    /\ Len(sums["AB"].authors) < Len(ops["A"].authors) + Len(ops["B"].authors)
    /\ Len(sums["AB"].authors) > Len(ops["A"].authors)

\* C8: the tables of A + B and of B + A hold the same set of rows.
C8_SumCommutesAsRowSets ==
    {"AB", "BA"} \subseteq formed =>
        \A t \in TableNames : Rows(sums["AB"][t]) = Rows(sums["BA"][t])

C8_Witness ==
    /\ {"AB", "BA"} \subseteq formed
    /\ sums["AB"].articles # sums["BA"].articles
    /\ sums["AB"].authors # sums["BA"].authors

\* fl[i] + (fl[i+1] + (... + fl[n])): the PubmedData of the files of a list,
\* summed from the right.
RECURSIVE SumFromRight(_, _)
SumFromRight(fl, i) ==
    IF i = Len(fl) THEN PubmedDataOfFile(fl[i])
    ELSE Add(PubmedDataOfFile(fl[i]), SumFromRight(fl, i + 1))

\* C9: (A + B) + C and A + (B + C) have equal tables, and the tables of a
\* PubmedData loaded from a directory are those of the sum of its files'
\* PubmedData however the sum is grouped.
C9_SumAssociative ==
    /\ {"AB_C", "A_BC"} \subseteq formed => sums["AB_C"] = sums["A_BC"]
    /\ dir_pc = "done" => dir_data = SumFromRight(file_list, 1)

C9_Witness ==
    /\ {"AB_C", "A_BC"} \subseteq formed
    /\ dir_pc = "done"
    /\ Len(file_list) = 3
    /\ ops["A"] # ops["B"] /\ ops["B"] # ops["C"] /\ ops["A"] # ops["C"]
    /\ Len(sums["AB_C"].authors) <
           Len(ops["A"].authors) + Len(ops["B"].authors) + Len(ops["C"].authors)
    /\ Len(dir_data.articles) >= 3

(***************************************************************************)
(* Claims about the anonymization (specification SpecAnon).                *)
(***************************************************************************)
\* The components of a UID: the runs of characters between its dots.
RECURSIVE Components(_)
Components(uid) ==
    IF Find(uid, ".") = -1 THEN <<uid>>
    ELSE <<SubSeq(uid, 1, Find(uid, "."))>>
         \o Components(SubSeq(uid, Find(uid, ".") + 2, Len(uid)))

\* The sum of the components, read as decimal numbers.
RECURSIVE ComponentSum(_)
ComponentSum(comps) ==
    IF comps = <<>> THEN Zero
    ELSE BigAdd(IntOf(Head(comps)), ComponentSum(Tail(comps)))

UpperHexChars == <<"0", "1", "2", "3", "4", "5", "6", "7", "8", "9",
                   "A", "B", "C", "D", "E", "F">>

\* ds * 16 + v, for a number ds and a digit value v < 16; C[i] is the carry
\* out of the i lowest positions.
Times16Plus(ds, v) ==
    LET n == Len(ds)
        C[i \in 0..n] == IF i = 0 THEN v ELSE (ds[n + 1 - i] * 16 + C[i - 1]) \div 10
    IN  Normalize(<<C[n] \div 10, C[n] % 10>>
                  \o [k \in 1..n |-> (ds[k] * 16 + C[n - k]) % 10])

\* The number an upper-case hexadecimal rendering stands for.
RECURSIVE HexValue(_)
HexValue(h) ==
    LET v == (CHOOSE i \in 1..16 : UpperHexChars[i] = h[Len(h)]) - 1
        Step(front) == Times16Plus(front, v)
    IN  IF h = <<>> THEN Zero
        ELSE On(HexValue(SubSeq(h, 1, Len(h) - 1)), Step)

\* h is the upper-case hexadecimal rendering, without prefix, of a number.
IsUpperHex(h) ==
    /\ h # <<>>
    /\ \A i \in 1..Len(h) : \E k \in 1..16 : UpperHexChars[k] = h[i]
    /\ Len(h) > 1 => h[1] # "0"

\* The last n characters of s.
LastChars(s, n) == SubSeq(s, IF Len(s) > n THEN Len(s) - n + 1 ELSE 1, Len(s))

\* C10: the fingerprint of a StudyInstanceUID is the upper-case hexadecimal
\* rendering, without prefix, of the sum of its components ('1.2.840.113'
\* gives '3BC'), and its last 16 characters are what AccessionNumber and
\* StudyID hold after the anonymization, where the record has these tags.
C10_FingerprintIsHexOfSum ==
    /\ anon.fingerprint # <<>> =>
           /\ IsUpperHex(anon.fingerprint)
           /\ HexValue(anon.fingerprint)
                  = ComponentSum(Components(dataset["StudyInstanceUID"]))
           /\ dataset["StudyInstanceUID"] = UID_SPEC
                  => anon.fingerprint = <<"3", "B", "C">>
    /\ anon_pc = "done" =>
           /\ anon.fingerprint # <<>>
           /\ \A t \in {"AccessionNumber", "StudyID"} \cap DOMAIN dataset :
                  anon.dataset[t] = LastChars(anon.fingerprint, 16)
           /\ ("StudyID" \in DOMAIN dataset /\ dataset["StudyInstanceUID"] = UID_UUID)
                  => anon.dataset["StudyID"] = <<"A", "7", "6", "5", "0", "0", "A", "0", "C", "9", "1", "E", "6", "C", "1", "1">>

C10_Witness ==
    /\ anon_pc = "done"
    /\ dataset["StudyInstanceUID"] = UID_UUID
    /\ {"AccessionNumber", "StudyID"} \subseteq DOMAIN dataset
    /\ Len(anon.fingerprint) > 16
    /\ Len(anon.dataset["AccessionNumber"]) = 16

\* The tags of the overwrite list.
TagsOverwritten ==
    {"StationName", "InstanceCreationDate", "StudyDate", "SeriesDate",
     "AcquisitionDate", "ContentDate", "AccessionNumber", "PatientName",
     "PatientID", "PatientBirthDate", "StudyID"}

\* The tags the transform must be able to read.
TagsRequired == {"StudyDate", "StudyTime", "StudyInstanceUID"}

\* C11: on a record that holds StudyDate, StudyTime and StudyInstanceUID the
\* transform completes whatever other tags of the overwrite list are absent:
\* it does not raise, an absent tag stays absent and a present one is still
\* there, overwritten.
C11_AbsentOverwriteTagIsNoFailure ==
    (anon_pc # "start" /\ TagsRequired \subseteq DOMAIN dataset) =>
        /\ anon.raised = ""
        /\ anon.status
        /\ \A t \in TagsOverwritten : t \in DOMAIN anon.dataset <=> t \in DOMAIN dataset

C15_SecondPassClearsNothingNew ==
    /\ anon_pc # "raised_again"
    /\ anon_pc = "done_again" =>
           /\ again.raised = "" /\ again.status
           /\ \A t \in TAGS_CLEARED :
                  /\ t \in DOMAIN again.dataset <=> t \in DOMAIN anon.dataset
                  /\ t \in DOMAIN anon.dataset =>
                         (anon.dataset[t] = <<>> /\ again.dataset[t] = <<>>)

C15_Witness ==
    /\ anon_pc = "done_again"
    /\ "InstitutionName" \notin DOMAIN dataset
    /\ "OperatorsName" \in DOMAIN again.dataset
    /\ again.dataset["OperatorsName"] = <<>>
    /\ again.dataset["PatientID"] # anon.dataset["PatientID"]

\* The record holds a DeviceSerialNumber made of digits.
HasNumericSerial(d) ==
    /\ "DeviceSerialNumber" \in DOMAIN d
    /\ d["DeviceSerialNumber"] # <<>>
    /\ \A i \in 1..Len(d["DeviceSerialNumber"]) :
           \E k \in 1..10 : UpperHexChars[k] = d["DeviceSerialNumber"][i]

Opened == ddir.idx - 1

\* The record of the file the loop opened last, as it is on disk.
LastSource == fs.files[ddir.file_list[Opened]].dataset

\* C13: DicomFile.anonymize ends by returning a value, not by raising; it
\* returns False and saves nothing when the record lacks StudyDate,
\* StudyTime or StudyInstanceUID, and returns True only when it holds them.
C13_OutcomeIsReturned ==
    (ddir.pc \in {"loop", "true", "false", "raised"} /\ Opened >= 1) =>
        /\ ddir.last.raised = ""
        /\ TagsRequired \ DOMAIN LastSource # {} =>
               (~ddir.last.status /\ ddir.last.saved = <<>>)
        /\ ddir.last.status => TagsRequired \subseteq DOMAIN LastSource

\* C14: DicomDir.anonymize opens the files of file_list in order, and each
\* file is saved before the next one is opened; it returns False at the
\* first file whose anonymization returns False, with no later file opened
\* and the outputs written so far on disk; it returns True only when every
\* file of file_list has been opened and saved.  (When a file's
\* anonymization raises, the loop ends there as well.)
C14_StrictSequentialBatch ==
    LET log == ddir.log
        n   == Len(ddir.file_list)
        opens == SelectSeq(log, LAMBDA e : e[1] = "open")
        saves == SelectSeq(log, LAMBDA e : e[1] = "save")
    IN  ddir.pc \in {"loop", "true", "false", "raised"} =>
        /\ Opened <= n
        /\ opens = [i \in 1..Opened |-> <<"open", ddir.file_list[i]>>]
        /\ \A i \in 1..Len(log) :
               /\ log[i][1] = "save" => (i > 1 /\ log[i - 1][1] = "open")
               /\ (log[i][1] = "open" /\ i < Len(log)) => log[i + 1][1] = "save"
        /\ \A i \in 1..Len(saves) : IsFile(fs, saves[i][2])
        /\ ddir.pc = "loop" => Len(log) = 2 * Opened
        /\ ddir.pc = "true" => (Opened = n /\ Len(log) = 2 * n)
        /\ ddir.pc = "false" =>
               /\ Opened >= 1 /\ Len(log) = 2 * Opened - 1
               /\ ddir.last.raised = "" /\ ~ddir.last.status
        /\ ddir.pc = "raised" =>
               /\ Opened >= 1 /\ Len(log) = 2 * Opened - 1
               /\ ddir.last.raised # ""

C14_Witness ==
    /\ ddir.pc = "false"
    /\ Len(ddir.file_list) = 3
    /\ Opened = 2
    /\ Len(ddir.log) = 3
    /\ ddir.log[2][1] = "save"
    /\ IsFile(fs, ddir.log[2][2])

\* The text of a number of at most five digits, padded with zeros on the
\* left to five characters.
Padded5(text) == [i \in 1..(5 - Len(text)) |-> "0"] \o text

\* The image type of a record as the claim has it: the third component of
\* ImageType, UNK when there is none.
ThirdComponent(d) ==
    IF "ImageType" \in DOMAIN d /\ Len(d["ImageType"]) >= 3
    THEN d["ImageType"][3] ELSE UNK

\* C17: a file anonymized into an existing output directory is saved under
\* it at <PatientID>/<last 16 of AccessionNumber>/<last 16 of
\* SeriesInstanceUID>_<Modality>/<image type>_<InstanceNumber on 5
\* digits>.dcm, taken from the anonymized record, with UNK, 00000 and 12345
\* for what is absent; the directories on the way exist.
C17_OutputPath ==
    (ddir.pc \in {"loop", "true", "false", "raised"} /\ ddir.last.saved # <<>>) =>
        LET saved == ddir.last.saved
            d     == fs.files[saved].dataset
            acc   == IF "AccessionNumber" \in DOMAIN d
                     THEN d["AccessionNumber"] ELSE <<"1", "2", "3", "4", "5">>
            inst  == IF "InstanceNumber" \in DOMAIN d
                     THEN Padded5(d["InstanceNumber"]) ELSE <<"0", "0", "0", "0", "0">>
        IN  /\ saved = Root \o <<ANONYMIZED>> \o
                   <<d["PatientID"],
                     LastChars(acc, 16),
                     LastChars(d["SeriesInstanceUID"], 16) \o <<"_">> \o d["Modality"],
                     ThirdComponent(d) \o <<"_">> \o inst \o <<".", "d", "c", "m">>>>
            /\ \A k \in 1..(Len(saved) - 1) : IsDir(fs, SubSeq(saved, 1, k))

\* The name of a file: the last name of its path.
FileName(path) == path[Len(path)]

\* C18: the DicomDir leaves out of its file list and of its table exactly
\* the supported files whose file name contains 'anonymized'; the name of
\* the directory a file lies in leaves nothing out.
C18_ExcludedByFileNameOnly ==
    ddir.pc = "built" =>
        /\ ddir.file_list
               = SelectSeq(ddir.listed, LAMBDA f : ~Contains(FileName(f), ANONYMIZED))
        /\ [i \in 1..Len(ddir.dicom_df) |-> ddir.dicom_df[i].path] = ddir.file_list

(***************************************************************************)
(* Claims about continuation lines (specification Spec).                   *)
(***************************************************************************)
IsAdLine(raw) == TagField(raw) = <<"A", "D", " ", " ">>

\* An untagged line with text: a blank tag field and something after it.
IsContinuationLine(raw) ==
    /\ Len(raw) > 5
    /\ TagField(raw) = <<" ", " ", " ", " ">>
    /\ Strip(SubSeq(raw, 6, Len(raw))) # <<>>

\* The parser once the first n lines of f are read (none of them raising).
RECURSIVE ReadUpTo(_, _)
ReadUpTo(f, n) == IF n = 0 THEN ParserStart ELSE ReadLine(ReadUpTo(f, n - 1), f[n])

\* A value as the tables hold it: lower-cased and trimmed.
Normalized(text) == Strip(Lower(text))

\* C20: an untagged line that follows an AD line is appended to the address
\* of the current author and leaves the abstract alone, also when the
\* article has an abstract; one that follows an AB line is appended to the
\* abstract of the current article and leaves the address alone.
C20_ContinuationExtendsLatestField ==
    (pc = "read" /\ pos >= 3 /\ IsContinuationLine(file[pos - 1])) =>
        LET opener == file[pos - 2]
            more   == Normalized(SubSeq(file[pos - 1], 6, Len(file[pos - 1])))
            before == ReadUpTo(file, pos - 2)
        IN  /\ IsAdLine(opener) =>
                   /\ parser.author[T_AD] = Normalized(LineText(opener)) \o more
                   /\ parser.pmid = before.pmid
            /\ IsAbLine(opener) =>
                   /\ parser.pmid[T_AB] = Normalized(LineText(opener)) \o more
                   /\ parser.author = before.author

IsTerminatorLine(raw) ==
    /\ ~IsContinuationLine(raw)
    /\ ~IsAbLine(raw)
    /\ ~IsAdLine(raw)
    /\ \/ Strip(raw) = <<>>
       \/ Strip(TagField(raw)) # <<>>

\* C21: an untagged line that comes right after a blank line or after a
\* line with a tag other than AB and AD is appended to no abstract and to
\* no address, and reading it raises nothing.
C21_CollectionStopsAtTagOrBlank ==
    /\ (pc = "read" /\ pos >= 3 /\ IsContinuationLine(file[pos - 1])
            /\ IsTerminatorLine(file[pos - 2])) =>
           LET before == ReadUpTo(file, pos - 2)
           IN  /\ parser.pmid = before.pmid
               /\ parser.author = before.author
    /\ (pc = "raised" /\ pos >= 2 /\ pos <= Len(file)) =>
           ~(IsContinuationLine(file[pos]) /\ IsTerminatorLine(file[pos - 1]))

\* The part of a full name that precedes its first comma; the whole name
\* when it holds no comma.
BeforeFirstComma(fau) ==
    LET commas == {i \in 1..Len(fau) : fau[i] = ","}
    IN  IF commas = {} THEN fau
        ELSE SubSeq(fau, 1, (CHOOSE i \in commas : \A j \in commas : i <= j) - 1)

\* Lower-cased, trimmed, and spaces replaced by underscores.
UnderscoredName(text) == Replace(Strip(Lower(text)), " ", "_")

\* C22: in every row of the author table, SAU is the part of FAU before its
\* first comma (the whole of FAU when it has no comma), lower-cased, trimmed
\* and with underscores for spaces.
C22_ShortNameIsPartBeforeComma ==
    \A k \in 1..Len(parser.authors) :
        parser.authors[k][T_SAU] = UnderscoredName(BeforeFirstComma(parser.authors[k][T_FAU]))

\* C26: the parse of a file that starts with a PMID line raises nothing, and
\* once it has ended the author table has as many rows as the file has FAU
\* lines (none for a file without FAU line).
C26_ParseCompletesWithRowPerFauLine ==
    /\ pc # "raised"
    /\ pc = "done" =>
           Len(parser.authors) = Cardinality(IndicesUpTo(file, Len(file), IsFauLine))

TagsIdentifying ==
    {"PatientName", "PatientID", "AccessionNumber", "StudyID", "StationName",
     "InstanceCreationDate", "SeriesDate", "AcquisitionDate", "ContentDate",
     "StudyDate", "PatientBirthDate"} \cup TAGS_CLEARED

\* Another value for an identifying tag of a record: another month and day
\* for StudyDate and PatientBirthDate, another text for the others.
OtherValue(d, t) ==
    IF t = "StudyDate" THEN SubSeq(d[t], 1, Len(d[t]) - 4) \o <<"1", "2", "2", "4">>
    ELSE IF t = "PatientBirthDate" THEN SubSeq(d[t], 1, Len(d[t]) - 4) \o <<"1", "1", "3", "0">>
    ELSE IF t \in {"InstanceCreationDate", "SeriesDate", "AcquisitionDate", "ContentDate"}
    THEN <<"1", "9", "9", "9", "1", "2", "3", "1">>
    ELSE <<"Z", "9">>

\* The record d with other values for the tags of S.
Varied(d, S) == [t \in DOMAIN d |-> IF t \in S THEN OtherValue(d, t) ELSE d[t]]

\* The sets of tags varied: each identifying tag of the record alone, all
\* of them, and all of them but StudyDate.
VariedSets(d) ==
    LET present == TagsIdentifying \cap DOMAIN d
    IN  {{t} : t \in present} \cup {present, present \ {"StudyDate"}}

\* C29: a record that differs from the source only in identifying values
\* is anonymized, on the same host and day, to a record that agrees with
\* the anonymized source on every tag but PatientName and PatientID, and on
\* these too when StudyDate is the same.
C29_IdentifyingValuesDoNotShow ==
    anon_pc = "done" =>
        \A S \in VariedSets(dataset) :
            LET other == AnonymizeDataset(Varied(dataset, S), today.Ymd, today.ymd, node)
            IN  /\ other.raised = "" /\ other.status
                /\ DOMAIN other.dataset = DOMAIN anon.dataset
                /\ \A t \in DOMAIN anon.dataset :
                       (t \in {"PatientName", "PatientID"} => "StudyDate" \notin S)
                           => other.dataset[t] = anon.dataset[t]

C29_Witness ==
    /\ anon_pc = "done"
    /\ {"PatientName", "PatientID", "AccessionNumber", "StudyID", "StationName",
        "SeriesDate", "StudyDate", "PatientBirthDate", "InstitutionName",
        "OperatorsName"} \subseteq DOMAIN dataset
    /\ LET twin  == Varied(dataset, TagsIdentifying \cap DOMAIN dataset)
           other == AnonymizeDataset(twin, today.Ymd, today.ymd, node)
       IN  /\ \A t \in TagsIdentifying \cap DOMAIN dataset : twin[t] # dataset[t]
           /\ other.dataset["PatientID"] # anon.dataset["PatientID"]
           /\ other.dataset["AccessionNumber"] = anon.dataset["AccessionNumber"]

(***************************************************************************)
(* Claims about the table and the files of a DicomDir (specification       *)
(* SpecDicomDir).                                                          *)
(***************************************************************************)
\* C24: once a DicomDir is constructed its table has one row per path of
\* file_list, in the order of file_list, and the row of a file holds, for
\* each tag of TAGS_DATAFRAME, the value the file has for it, or UNK when
\* the file lacks the tag.
C24_TableRowPerListedFile ==
    ddir.pc \in {"built", "rebuilt"} =>
        /\ Len(ddir.dicom_df) = Len(ddir.file_list)
        /\ \A i \in 1..Len(ddir.file_list) :
               /\ ddir.dicom_df[i].path = ddir.file_list[i]
               /\ IsFile(fs, ddir.file_list[i])
               /\ \A j \in 1..(i - 1) : ddir.file_list[j] # ddir.file_list[i]
               /\ \A k \in 1..Len(TAGS_DATAFRAME) :
                      LET tag  == TAGS_DATAFRAME[k]
                          held == fs.files[ddir.file_list[i]].dataset
                      IN  /\ tag \in DOMAIN ddir.dicom_df[i].info
                          /\ ddir.dicom_df[i].info[tag]
                                 = IF tag \in DOMAIN held THEN held[tag] ELSE UNK

C24_Witness ==
    /\ ddir.pc = "built"
    /\ Len(ddir.file_list) = 3
    /\ ddir.dicom_df[1].info["AccessionNumber"] = UNK
    /\ ddir.dicom_df[2].info["AccessionNumber"] = <<"A", "C", "C", "4", "2">>
    /\ ddir.dicom_df[3].info["InstanceNumber"] = UNK
    /\ ddir.dicom_df[1].path # ddir.dicom_df[2].path

\* C27: the construction of a DicomDir, the first one and the one that
\* follows a run of anonymize, leaves the file system as it is.
C27_ConstructionIsReadOnly ==
    [][(ConstructDicomDir \/ ReconstructDicomDir) => fs' = fs]_vars

\* The paths the loop of anonymize saved to, in order.
SavedPaths ==
    LET saves == SelectSeq(ddir.log, LAMBDA e : e[1] = "save")
    IN  [i \in 1..Len(saves) |-> saves[i][2]]

\* C28: when anonymize returns True there is one saved path per file of
\* file_list, and no two of them are equal.
C28_OneOutputPerFile ==
    ddir.pc = "true" =>
        /\ Len(SavedPaths) = Len(ddir.file_list)
        /\ \A i, j \in 1..Len(SavedPaths) : i # j => SavedPaths[i] # SavedPaths[j]

(***************************************************************************)
(* Claims about DicomFile.anonymize (specification SpecFile).              *)
(***************************************************************************)
\* C23: after any call of anonymize on a DicomFile, whatever it returned or
\* raised, the dataset of the object is the one it was constructed with,
\* and the file it was constructed on is still on disk, with that dataset,
\* and is not the file the call saved to.
C23_SourceKeptInMemoryAndOnDisk ==
    (dfile.pc = "open" /\ dfile.calls >= 1) =>
        /\ dfile.self.dataset = dfile.opened
        /\ IsFile(fs, dfile.self.file_path)
        /\ fs.files[dfile.self.file_path].dataset = dfile.opened
        /\ dfile.last.saved # dfile.self.file_path

\* A file name without its extension (what follows its last dot); the
\* whole name when it holds no dot.
WithoutExtension(name) ==
    LET dots == {i \in 1..Len(name) : name[i] = "."}
    IN  IF dots = {} THEN name
        ELSE SubSeq(name, 1, (CHOOSE i \in dots : \A j \in dots : j <= i) - 1)

\* C25: a call of anonymize without output directory saves to the directory
\* of the source file, under the name of the source file with
\* '_anonymized.dcm' in place of its extension (after the whole name when
\* it has no extension).
C25_SavedBesideSourceUnderSuffixedName ==
    (dfile.pc = "open" /\ dfile.calls >= 1 /\ dfile.arg = None
         /\ dfile.last.saved # <<>>) =>
        dfile.last.saved
            = Append(DirName(dfile.self.file_path),
                     WithoutExtension(FileName(dfile.self.file_path))
                         \o <<"_", "a", "n", "o", "n", "y", "m", "i", "z", "e", "d",
                              ".", "d", "c", "m">>)

====
